---- MODULE Spec2Model ----
(***************************************************************************)
(* Model of the circuit simulator: construction of nodes and components    *)
(* (electronics/components.py), the LISO parser's component creation       *)
(* (electronics/simulate/liso.py), the component and node equations, the   *)
(* noise analysis (zero/analysis/ac/noise.py) and the solution container   *)
(* (electronics/simulate/solution.py).                                     *)
(*                                                                         *)
(* Objects live in heaps: `nodes` holds every Node object ever built and   *)
(* `components` every component, each in construction order; an object's   *)
(* identity is its key in its heap.  Node(name) objects get the keys 1, 2, *)
(* ...; the instance of the singleton class Gnd, once built, has key 0.    *)
(***************************************************************************)
EXTENDS Integers, Sequences, FiniteSets, TLC

VARIABLES
    instances,    \* Singleton._instances: class name -> id of its instance
    nodes,        \* heap of Node objects: key -> [name, sources, sinks]
    components,   \* heap of components: <<[cls, nodes], ...>>
    parsed,       \* history: ids of the nodes built by BaseParser._add_lcr
    ret           \* history: what the last call returned, when that call was
                  \* equation(), circuit_matrix() or right_hand_side_index

VARIABLES
    noise_sources,  \* circuit.noise_sources: <<[TYPE, element, density], ...>>
    noise_sink,     \* AcNoiseAnalysis._noise_sink: a reference to an element
    noise_matrix,   \* history: the argument of _build_solution
    solution,       \* the functions of the analysis' solution, in order
    log,            \* the records handed to LOGGER
    build_result,   \* "pending", then how _build_solution ended
    analysis,       \* the AcNoiseAnalysis instance: its state and settings
    call            \* the activation of calculate: arguments, position, result

VARIABLES
    functions,      \* Solution.functions of a solution of electronics.simulate
    add_call        \* history: the last call on that solution and how it ended

VARIABLES
    registry,       \* SingletonAbstractMeta._SINGLETON_REGISTRY: class -> id
    configs,        \* heap of the config objects whose __init__ has returned
    init_calls,     \* history: class -> times its __init__ body was entered
    resistor_set,   \* the Set object in use: its fields, once it is built
    parser          \* the InputParser that is reading its file, line by line

circuitVars == <<instances, nodes, components, parsed, ret>>

toolVars == <<registry, configs, init_calls, resistor_set, parser>>

solutionVars == <<functions, add_call>>

noiseVars ==
    <<noise_sources, noise_sink, noise_matrix, solution, log, build_result,
      analysis, call>>

vars == <<circuitVars, noiseVars, solutionVars, toolVars>>

----------------------------------------------------------------------------
(* Bounds *)

MaxNodes == 2          \* Node objects built besides the Gnd singleton
MaxComponents == 1     \* components built
NFreq == 2             \* frequencies of a sweep
MaxSources == 2        \* noise sources of the analysed circuit
MaxCalls == 2          \* calls made on one Solution
MaxAdds == 1           \* add_data calls made on the populated library
MaxCombinations == 3   \* items a resistor set's combinations() yields
MaxLines == 2          \* lines of the file an InputParser reads

Frequencies == 1..NFreq

Densities == {0, 2}                   \* values of a noise spectral density

NoiseTypes == {"component", "node", "other"}      \* NoiseSource.TYPE

NodeNames == {"n1", "gnd", "GND"}     \* node names in a LISO file

UserNodeNames == {"n1"}               \* names given to Node(name) directly

PassiveClasses == {"Resistor", "Capacitor", "Inductor"}

----------------------------------------------------------------------------
(* BaseCoefficient types *)

TYPE_IMPEDANCE == 0
TYPE_CURRENT == 1
TYPE_VOLTAGE == 2

ImpedanceCoefficient(component, value) ==
    [coefficient_type |-> TYPE_IMPEDANCE, component |-> component, value |-> value]

CurrentCoefficient(component, value) ==
    [coefficient_type |-> TYPE_CURRENT, component |-> component, value |-> value]

VoltageCoefficient(node, value) ==
    [coefficient_type |-> TYPE_VOLTAGE, node |-> node, value |-> value]

----------------------------------------------------------------------------
(* Node, Gnd and the Singleton metaclass *)

\* Node.__init__
Node(name) == [name |-> name, sources |-> {}, sinks |-> {}]

\* Node.add_source / Node.add_sink on node n of heap ns
add_source(ns, n, component) ==
    [ns EXCEPT ![n].sources = @ \cup {component}]

add_sink(ns, n, component) ==
    [ns EXCEPT ![n].sinks = @ \cup {component}]

\* Singleton.__call__ for the class Gnd: the instance is built on the first
\* call only.  GndId is the object the call returns, NodesAfterGnd and
\* InstancesAfterGnd the heap and the registry after the call.
GndExists == "Gnd" \in DOMAIN instances

GndId == IF GndExists THEN instances["Gnd"] ELSE 0

NodesAfterGnd == IF GndExists THEN nodes ELSE (0 :> Node("Gnd")) @@ nodes

InstancesAfterGnd == IF GndExists THEN instances ELSE ("Gnd" :> 0)

\* Node objects built by Node(name), and the key of the next one
PlainNodes == DOMAIN nodes \ {0}

NextNode == Cardinality(PlainNodes) + 1

NewNodeIn(ns, name) == ns @@ ((Cardinality(DOMAIN ns \ {0}) + 1) :> Node(name))

\* References to objects of the two heaps: `x is not y` compares references
NodeRef(n) == <<"Node", n>>
ComponentRef(c) == <<"Component", c>>

----------------------------------------------------------------------------
(* Component constructors *)

\* PassiveComponent.__init__: the node heap after registering component c
\* as sink of node1 and source of node2
PassiveInitSwapped(ns, c, node1, node2) ==
    add_sink(add_source(ns, node1, c), node2, c)

PassiveInit(ns, c, node1, node2) ==
    add_source(add_sink(ns, node1, c), node2, c)

\* OpAmp.__init__: component c is a source of node3 only
OpAmpInit(ns, c, node1, node2, node3) ==
    add_source(ns, node3, c)

IsPassive(c) == components[c].cls \in PassiveClasses
IsOpAmp(c) == components[c].cls = "OpAmp"

----------------------------------------------------------------------------
(* Equations; gnd is the object Gnd() returns during the call *)

Skip(cond, coefficient) == IF cond THEN <<coefficient>> ELSE <<>>

\* PassiveComponent.equation
PassiveEquationKeepsGround(c, gnd) ==
    <<ImpedanceCoefficient(c, "impedance")>>
        \o <<VoltageCoefficient(components[c].nodes[1], "-1")>>
        \o <<VoltageCoefficient(components[c].nodes[2], "1")>>

PassiveEquation(c, gnd) ==
    <<ImpedanceCoefficient(c, "impedance")>>
        \o Skip(components[c].nodes[1] # gnd,
                VoltageCoefficient(components[c].nodes[1], "-1"))
        \o Skip(components[c].nodes[2] # gnd,
                VoltageCoefficient(components[c].nodes[2], "1"))

\* OpAmp.equation: the output coefficient is guarded by the test on node2
OpAmpEquation(c, gnd) ==
    Skip(components[c].nodes[1] # gnd,
         VoltageCoefficient(components[c].nodes[1], "-1"))
        \o Skip(components[c].nodes[2] # gnd,
                VoltageCoefficient(components[c].nodes[2], "1"))
        \o Skip(components[c].nodes[2] # gnd,
                VoltageCoefficient(components[c].nodes[3], "inverse_gain"))

\* The orders in which a Python set can be iterated
Orderings(S) ==
    {s \in [1..Cardinality(S) -> S] : \A i, j \in DOMAIN s : i # j => s[i] # s[j]}

RECURSIVE CurrentCoefficients(_, _, _)
CurrentCoefficients(order, value, gnd) ==
    IF order = <<>> THEN <<>>
    ELSE Skip(ComponentRef(Head(order)) # NodeRef(gnd),
              CurrentCoefficient(Head(order), value))
             \o CurrentCoefficients(Tail(order), value, gnd)

\* Node.equation, with the sources and sinks iterated in the given orders
NodeEquation(sourceOrder, sinkOrder, gnd) ==
    CurrentCoefficients(sourceOrder, "1", gnd)
        \o CurrentCoefficients(sinkOrder, "-1", gnd)

NoCall == [kind |-> "none", of |-> 0, value |-> <<>>]

----------------------------------------------------------------------------
(* The circuit of the analysis and its matrix layout: the circuit holds the *)
(* components in insertion order and the nodes they are attached to        *)

Return(value) == [raised |-> "", value |-> value]
Raise(error) == [raised |-> error, value |-> 0]

\* raise error(f"{text} '{element}' {rest}")
RaiseNaming(error, text, element, rest) ==
    [raised |-> error, value |-> 0, message |-> <<text, element, rest>>]

n_components == Len(components)

RECURSIVE Terminals(_)
Terminals(c) ==
    IF c > Len(components) THEN <<>> ELSE components[c].nodes \o Terminals(c + 1)

RECURSIVE FirstSeen(_, _)
FirstSeen(seq, seen) ==
    IF seq = <<>> THEN <<>>
    ELSE IF Head(seq) \in seen THEN FirstSeen(Tail(seq), seen)
    ELSE <<Head(seq)>> \o FirstSeen(Tail(seq), seen \cup {Head(seq)})

\* the circuit's nodes but ground, in first-seen order over the components
non_gnd_nodes == FirstSeen(Terminals(1), {GndId})

node_index(node) ==
    (CHOOSE i \in DOMAIN non_gnd_nodes : non_gnd_nodes[i] = node) - 1

dim_size == n_components + Len(non_gnd_nodes)

component_matrix_index(element) ==
    IF element[1] = "Component" /\ element[2] \in DOMAIN components
    THEN Return(element[2] - 1)
    ELSE Raise("ValueError")

node_matrix_index(element) ==
    IF element[1] = "Node" /\ \E i \in DOMAIN non_gnd_nodes : non_gnd_nodes[i] = element[2]
    THEN Return(n_components + node_index(element[2]))
    ELSE Raise("ValueError")

\* the equation of matrix row i: a component's equation, then the nodes'
RowEquation(i) ==
    IF i < n_components
    THEN IF IsPassive(i + 1) THEN PassiveEquation(i + 1, GndId)
         ELSE OpAmpEquation(i + 1, GndId)
    ELSE LET n == non_gnd_nodes[i - n_components + 1]
         IN  NodeEquation(CHOOSE o \in Orderings(nodes[n].sources) : TRUE,
                          CHOOSE o \in Orderings(nodes[n].sinks) : TRUE, GndId)

\* the matrix column of a coefficient; a coefficient on ground has none
Column(coefficient) ==
    IF coefficient.coefficient_type = TYPE_VOLTAGE
    THEN node_matrix_index(NodeRef(coefficient.node))
    ELSE component_matrix_index(ComponentRef(coefficient.component))

\* a coefficient's value in row i at frequency f
ValueAt(coefficient, i, f) ==
    IF coefficient.value \in {"impedance", "inverse_gain"}
    THEN <<coefficient.value, i + 1, f>>
    ELSE <<coefficient.value, 0, 0>>

\* AcSignalAnalysis.circuit_matrix: cell (i, j) is the sum of the values of
\* the coefficients of row i's equation that fall in column j, kept as the
\* bag of its terms
SignalCircuitMatrix(f) ==
    [i \in 0..(dim_size - 1) |->
        LET cs == RowEquation(i)
        IN  [j \in 0..(dim_size - 1) |->
                LET here == {k \in DOMAIN cs : Column(cs[k]) = Return(j)}
                    terms == {ValueAt(cs[k], i, f) : k \in here}
                IN  [t \in terms |->
                        Cardinality({k \in here : ValueAt(cs[k], i, f) = t})]]]

\* numpy / scipy .T
Transpose(m) ==
    IF DOMAIN m = {} THEN m
    ELSE [j \in DOMAIN m[CHOOSE i \in DOMAIN m : TRUE] |-> [i \in DOMAIN m |-> m[i][j]]]

\* The signal analysis matrix handed on without the trailing .T
NoiseCircuitMatrixUntransposed(f) == SignalCircuitMatrix(f)

\* AcNoiseAnalysis.circuit_matrix
NoiseCircuitMatrix(f) == Transpose(SignalCircuitMatrix(f))

\* the lookup without its second try
NoiseElementIndexComponentOnly(sink) ==
    IF component_matrix_index(sink).raised = ""
    THEN component_matrix_index(sink)
    ELSE RaiseNaming("ValueError", "noise output element", sink, "is not in the circuit")

\* AcNoiseAnalysis.noise_element_index, for self.noise_sink = sink
noise_element_index(sink) ==
    IF component_matrix_index(sink).raised = ""
    THEN component_matrix_index(sink)
    ELSE IF node_matrix_index(sink).raised = ""
    THEN node_matrix_index(sink)
    ELSE RaiseNaming("ValueError", "noise output element", sink, "is not in the circuit")

\* AcNoiseAnalysis.right_hand_side_index
right_hand_side_index(sink) == noise_element_index(sink)

----------------------------------------------------------------------------
(* Operations *)

\* no AcNoiseAnalysis has been built, and calculate is not running
NoAnalysisInstance == [state |-> "none"]

\* calculate is not running; n calls have been made
IdleCall(n) ==
    [pc |-> "idle", n |-> n, input_type |-> "", sink |-> NodeRef(0),
     impedance |-> [given |-> FALSE, value |-> 0], input_refer |-> FALSE,
     swept |-> 0, cancel |-> FALSE, cancel_at |-> 0, warned |-> FALSE,
     rhs |-> [raised |-> "", value |-> "none"],
     built |-> <<>>, result |-> [raised |-> "", value |-> "none"]]

NoCalculate == IdleCall(0)

\* no analysis is set up
NoAnalysis ==
    /\ noise_sources = <<>>
    /\ noise_sink = NodeRef(0)
    /\ noise_matrix = <<>>
    /\ solution = <<>>
    /\ log = <<>>
    /\ build_result = "pending"
    /\ analysis = NoAnalysisInstance
    /\ call = NoCalculate

NoAddCall == [method |-> "none", spectra |-> <<>>, sink |-> NodeRef(0), raised |-> "", n |-> 0]

\* no solution is being filled
NoSolution ==
    /\ functions = <<>>
    /\ add_call = NoAddCall

\* None, passed where a node is expected
None == -1

\* what a caller hands in as a value: None, a number or a string
ValueNone == [kind |-> "None", n |-> 0, text |-> ""]
Number(n) == [kind |-> "number", n |-> n, text |-> ""]
Text(text) == [kind |-> "str", n |-> 0, text |-> text]

\* no Set has been built
NoSet == [series |-> 0, tolerance |-> 0, max_exp |-> 0, min_exp |-> 0,
          max_series |-> 0, min_series |-> 0, max_parallel |-> 0, min_parallel |-> 0]

\* BaseParser.__init__ before _load_file: a new Circuit, no output nodes,
\* no frequencies; lines counts the lines handed to _parse_tokens and
\* raised is the exception that ended the parsing
NoParser ==
    [circuit |-> [input_node_p |-> None, input_node_m |-> None,
                  input_impedance |-> ValueNone, noise_node |-> None],
     output_nodes |-> {}, frequencies |-> <<>>, lines |-> 0, raised |-> ""]

\* no configuration class has been called
ConfigClasses == {"ZeroConfig", "OpAmpLibrary"}

NoTools ==
    /\ registry = <<>>
    /\ configs = <<>>
    /\ init_calls = [cls \in ConfigClasses |-> 0]
    /\ resistor_set = NoSet
    /\ parser = NoParser

Init ==
    /\ instances = <<>>
    /\ nodes = <<>>
    /\ components = <<>>
    /\ parsed = {}
    /\ ret = NoCall
    /\ NoAnalysis
    /\ NoSolution
    /\ NoTools

\* Gnd()
CallGnd ==
    /\ instances' = InstancesAfterGnd
    /\ nodes' = NodesAfterGnd
    /\ UNCHANGED <<components, parsed, ret>>

\* Node(name)
NewNode(name) ==
    /\ Cardinality(PlainNodes) < MaxNodes
    /\ nodes' = NewNodeIn(nodes, name)
    /\ ret' = NoCall
    /\ UNCHANGED <<instances, components, parsed>>

\* Resistor / Capacitor / Inductor (node1=, node2=)
NewPassive(cls, node1, node2) ==
    /\ Len(components) < MaxComponents
    /\ components' = Append(components, [cls |-> cls, nodes |-> <<node1, node2>>])
    /\ nodes' = PassiveInit(nodes, Len(components) + 1, node1, node2)
    /\ ret' = NoCall
    /\ UNCHANGED <<instances, parsed>>

\* OpAmp(node1=, node2=, node3=)
NewOpAmp(node1, node2, node3) ==
    /\ Len(components) < MaxComponents
    /\ components' = Append(components,
                            [cls |-> "OpAmp", nodes |-> <<node1, node2, node3>>])
    /\ nodes' = OpAmpInit(nodes, Len(components) + 1, node1, node2, node3)
    /\ ret' = NoCall
    /\ UNCHANGED <<instances, parsed>>

\* BaseParser._add_lcr: two new Node objects, then the component on them
AddLcr(cls, node1_name, node2_name) ==
    LET node1 == NextNode
        node2 == NextNode + 1
        built == NewNodeIn(NewNodeIn(nodes, node1_name), node2_name)
    IN  /\ Len(components) < MaxComponents
        /\ Cardinality(PlainNodes) + 2 <= MaxNodes
        /\ components' = Append(components, [cls |-> cls, nodes |-> <<node1, node2>>])
        /\ nodes' = PassiveInit(built, Len(components) + 1, node1, node2)
        /\ parsed' = parsed \cup {node1, node2}
        /\ ret' = NoCall
        /\ UNCHANGED <<instances>>

\* component.equation() of a passive component
CallPassiveEquation(c) ==
    /\ IsPassive(c)
    /\ ret' = [kind |-> "passive", of |-> c, value |-> PassiveEquation(c, GndId)]
    /\ instances' = InstancesAfterGnd
    /\ nodes' = NodesAfterGnd
    /\ UNCHANGED <<components, parsed>>

\* component.equation() of an op-amp
CallOpAmpEquation(c) ==
    /\ IsOpAmp(c)
    /\ ret' = [kind |-> "opamp", of |-> c, value |-> OpAmpEquation(c, GndId)]
    /\ instances' = InstancesAfterGnd
    /\ nodes' = NodesAfterGnd
    /\ UNCHANGED <<components, parsed>>

\* node.equation(): Gnd() is called once per source and per sink
CallNodeEquation(n) ==
    /\ \E sourceOrder \in Orderings(nodes[n].sources),
          sinkOrder \in Orderings(nodes[n].sinks) :
            ret' = [kind |-> "node", of |-> n,
                   value |-> NodeEquation(sourceOrder, sinkOrder, GndId)]
    /\ IF nodes[n].sources \cup nodes[n].sinks = {}
       THEN UNCHANGED <<instances, nodes>>
       ELSE /\ instances' = InstancesAfterGnd
            /\ nodes' = NodesAfterGnd
    /\ UNCHANGED <<components, parsed>>

\* analysis.circuit_matrix(f) of an AcNoiseAnalysis of the circuit; the
\* equations of the components call Gnd()
CallCircuitMatrix(f) ==
    /\ ret' = [kind |-> "circuit_matrix", of |-> f, value |-> NoiseCircuitMatrix(f)]
    /\ IF components = <<>>
       THEN UNCHANGED <<instances, nodes>>
       ELSE /\ instances' = InstancesAfterGnd
            /\ nodes' = NodesAfterGnd
    /\ UNCHANGED <<components, parsed>>

\* analysis.noise_sink = sink, for a sink that is an element object, and
\* then analysis.right_hand_side_index
CallRightHandSideIndex(sink) ==
    /\ ret' = [kind |-> "right_hand_side_index", of |-> sink,
               value |-> right_hand_side_index(sink)]
    /\ UNCHANGED <<instances, nodes, components, parsed>>

Elements ==
    {ComponentRef(c) : c \in DOMAIN components} \cup {NodeRef(n) : n \in DOMAIN nodes}

\* The caller takes the returned value; the next call is made after that
Discard ==
    /\ ret # NoCall
    /\ ret' = NoCall
    /\ UNCHANGED <<instances, nodes, components, parsed>>

Construct ==
    \/ /\ ret = NoCall
       /\ \/ CallGnd
          \/ \E name \in UserNodeNames : NewNode(name)
          \/ \E cls \in PassiveClasses, node1, node2 \in DOMAIN nodes :
                 NewPassive(cls, node1, node2)
          \/ \E node1, node2, node3 \in DOMAIN nodes : NewOpAmp(node1, node2, node3)
          \/ \E cls \in PassiveClasses, node1_name, node2_name \in NodeNames :
                 AddLcr(cls, node1_name, node2_name)
          \/ \E c \in DOMAIN components : CallPassiveEquation(c)
          \/ \E c \in DOMAIN components : CallOpAmpEquation(c)
          \/ \E n \in DOMAIN nodes : CallNodeEquation(n)
          \/ \E f \in Frequencies : CallCircuitMatrix(f)
          \/ \E sink \in Elements : CallRightHandSideIndex(sink)
    \/ Discard

Next == Construct /\ UNCHANGED <<noiseVars, solutionVars, toolVars>>

Spec == Init /\ [][Next]_vars

----------------------------------------------------------------------------
(* AcNoiseAnalysis._build_solution, on the voltage divider R1 (in -> mid),  *)
(* R2 (mid -> ground)                                                      *)

Divider ==
    LET heap == NewNodeIn(NewNodeIn(0 :> Node("Gnd"), "in"), "mid")
    IN  [nodes |-> PassiveInit(PassiveInit(heap, 1, 1, 2), 2, 2, 0),
         components |-> <<[cls |-> "Resistor", nodes |-> <<1, 2>>],
                          [cls |-> "Resistor", nodes |-> <<2, 0>>]>>]

\* the noise sources a circuit can hold: the element a source belongs to is
\* a component for TYPE "component" and a node for TYPE "node"
NoiseSources ==
    {[TYPE |-> t, element |-> e, density |-> d] :
        t \in NoiseTypes \ {"other"},
        e \in {1, 2},
        d \in [Frequencies -> Densities]}
    \cup {[TYPE |-> "other", element |-> 1, density |-> d] :
              d \in [Frequencies -> Densities]}

\* the solved noise matrices handed to _build_solution: dim_size rows, one
\* column per frequency
NoiseMatrices ==
    {[i \in 0..(dim_size - 1) |-> [f \in Frequencies |-> scale * (2 * i + f) - 3]] :
        scale \in {1, 2}}

\* self.frequencies
frequencies == [f \in Frequencies |-> f]

\* np.all(array)
np_all(array) == \A k \in DOMAIN array : array[k] # 0

Abs(x) == IF x < 0 THEN -x ELSE x

\* np.abs(response * spectral_density)
ProjectedNoiseSigned(response, spectral_density) ==
    [f \in DOMAIN response |-> response[f] * spectral_density[f]]

ProjectedNoise(response, spectral_density) ==
    [f \in DOMAIN response |-> Abs(response[f] * spectral_density[f])]

Series(x, y) == [x |-> x, y |-> y]

\* NoiseDensity(source=, sink=, series=); a source is known by its place in
\* circuit.noise_sources
NoiseDensity(source, sink, series) ==
    [source |-> source, sink |-> sink, series |-> series]

\* Solution.add_noise of the analysis' solution
solution_add_noise(fs, noise_density) == Append(fs, noise_density)

\* the matrix index of the element of noise source `noise`
NoiseIndex(noise) ==
    IF noise.TYPE = "component"
    THEN component_matrix_index(ComponentRef(noise.element))
    ELSE IF noise.TYPE = "node"
    THEN node_matrix_index(NodeRef(noise.element))
    ELSE Raise("ValueError")

\* the loop of _build_solution from source i on; st holds the solution's
\* functions, the list `empty` and the exception raised
RECURSIVE BuildLoop(_, _, _)
BuildLoop(i, st, matrix) ==
    IF i > Len(noise_sources) THEN st
    ELSE LET noise == noise_sources[i]
             spectral_density == noise.density
             empty == IF np_all(spectral_density) = FALSE
                      THEN Append(st.empty, i) ELSE st.empty
             index == NoiseIndex(noise)
         IN  IF index.raised # ""
             THEN [st EXCEPT !.empty = empty, !.raised = index.raised]
             ELSE BuildLoop(i + 1,
                     [st EXCEPT
                        !.empty = empty,
                        !.functions = solution_add_noise(@,
                            NoiseDensity(i, noise_sink,
                                Series(frequencies,
                                       ProjectedNoise(matrix[index.value],
                                                      spectral_density))))],
                     matrix)

InitNoise ==
    /\ instances = ("Gnd" :> 0)
    /\ nodes = Divider.nodes
    /\ components = Divider.components
    /\ parsed = {}
    /\ ret = NoCall
    /\ noise_sources \in UNION {[1..n -> NoiseSources] : n \in 0..MaxSources}
    /\ noise_sink \in {NodeRef(2), ComponentRef(2)}
    /\ noise_matrix = <<>>
    /\ solution = <<>>
    /\ log = <<>>
    /\ build_result = "pending"
    /\ analysis = NoAnalysisInstance
    /\ call = NoCalculate
    /\ NoSolution
    /\ NoTools

\* _build_solution(noise_matrix)
BuildSolution(matrix) ==
    LET end == BuildLoop(1, [functions |-> solution, empty |-> <<>>, raised |-> ""],
                         matrix)
    IN  /\ build_result = "pending"
        /\ noise_matrix' = matrix
        /\ solution' = end.functions
        /\ build_result' = IF end.raised = "" THEN "returned" ELSE end.raised
        /\ log' = IF end.raised = "" /\ end.empty # <<>>
                  THEN Append(log, [level |-> "debug", message |-> "empty noise sources",
                                    sources |-> end.empty])
                  ELSE log
        /\ UNCHANGED <<noise_sources, noise_sink, analysis, call>>

NextNoise ==
    (\E matrix \in NoiseMatrices : BuildSolution(matrix))
        /\ UNCHANGED <<circuitVars, solutionVars, toolVars>>

SpecNoise == InitNoise /\ [][NextNoise]_vars

----------------------------------------------------------------------------
(* Solution of electronics.simulate, for the circuit R1 (n1 -> ground)     *)

SingleResistor ==
    LET heap == NewNodeIn(0 :> Node("Gnd"), "n1")
    IN  [nodes |-> PassiveInit(heap, 1, 1, 0),
         components |-> <<[cls |-> "Resistor", nodes |-> <<1, 0>>]>>]

\* circuit.elements: the components, then the non-ground nodes
elements ==
    [k \in 1..dim_size |->
        IF k <= n_components THEN ComponentRef(k)
        ELSE NodeRef(non_gnd_nodes[k - n_components])]

\* Solution.n_frequencies
n_frequencies == Len(frequencies)

\* ndarray.shape of a matrix kept as the sequence of its rows
Shape(matrix) ==
    <<Len(matrix), IF matrix = <<>> THEN 0 ELSE Len(matrix[1])>>

SpectrumValues == {0, 1}

\* the matrices handed to add_noise: every matrix of the solution's shape,
\* and one with a row too few
NoiseSpectra ==
    [1..dim_size -> [Frequencies -> SpectrumValues]]
        \cup {[k \in 1..(dim_size - 1) |-> [f \in Frequencies |-> 1]]}

NoiseSpectrum(source, sink, series) ==
    [class |-> "NoiseSpectrum", source |-> source, sink |-> sink, series |-> series]

\* Solution.add_function on the list fs; functions are equal when their
\* class, source, sink and series are
add_function(fs, function) ==
    IF \E k \in DOMAIN fs : fs[k] = function
    THEN [functions |-> fs, raised |-> "ValueError"]
    ELSE [functions |-> Append(fs, function), raised |-> ""]

Min(a, b) == IF a < b THEN a ELSE b

\* the loop of Solution.add_noise over zip(noise_spectra, sources), from
\* pair k on; st holds the functions, the list `skips` and the exception
RECURSIVE AddNoiseLoop(_, _, _, _)
AddNoiseLoop(k, st, noise_spectra, sink) ==
    IF k > Min(Len(noise_spectra), Len(elements)) THEN st
    ELSE LET spectrum == noise_spectra[k]
             source == elements[k]
         IN  IF np_all(spectrum) = FALSE
             THEN AddNoiseLoop(k + 1, [st EXCEPT !.skips = Append(@, source)],
                               noise_spectra, sink)
             ELSE LET added == add_function(st.functions,
                                   NoiseSpectrum(source, sink,
                                                 Series(frequencies, spectrum)))
                  IN  IF added.raised # ""
                      THEN [st EXCEPT !.raised = added.raised]
                      ELSE AddNoiseLoop(k + 1,
                                        [st EXCEPT !.functions = added.functions],
                                        noise_spectra, sink)

\* Solution.add_noise
add_noise(fs, noise_spectra, sink) ==
    IF Shape(noise_spectra) # <<dim_size, n_frequencies>>
    THEN [functions |-> fs, skips |-> <<>>, raised |-> "ValueError"]
    ELSE AddNoiseLoop(1, [functions |-> fs, skips |-> <<>>, raised |-> ""],
                      noise_spectra, sink)

InitSolution ==
    /\ instances = ("Gnd" :> 0)
    /\ nodes = SingleResistor.nodes
    /\ components = SingleResistor.components
    /\ parsed = {}
    /\ ret = NoCall
    /\ NoAnalysis
    /\ NoSolution
    /\ NoTools

\* solution.add_noise(noise_spectra, sink)
AddNoise(noise_spectra, sink) ==
    LET end == add_noise(functions, noise_spectra, sink)
    IN  /\ add_call.n < MaxCalls
        /\ functions' = end.functions
        /\ add_call' = [method |-> "add_noise", spectra |-> noise_spectra,
                        sink |-> sink, raised |-> end.raised, n |-> add_call.n + 1,
                        before |-> functions]
        /\ log' = IF end.raised = "" /\ Len(end.skips) # 0
                  THEN Append(log, [level |-> "info",
                                    message |-> "skipped zero noise sources",
                                    sources |-> end.skips])
                  ELSE log
        /\ UNCHANGED <<noise_sources, noise_sink, noise_matrix, solution, build_result,
                       analysis, call>>

NextSolution ==
    (\E noise_spectra \in NoiseSpectra, sink \in {NodeRef(1), ComponentRef(1)} :
         AddNoise(noise_spectra, sink))
        /\ UNCHANGED <<circuitVars, toolVars>>

SpecSolution == InitSolution /\ [][NextSolution]_vars

----------------------------------------------------------------------------
(* AcNoiseAnalysis.calculate on the voltage divider.  The sweep driver      *)
(* (_do_calculate), the analysis states and the response analysis used for  *)
(* the projection are not part of the files modelled above; they follow     *)
(* the description of the sweep driver, the state machine and cancellation. *)

DEFAULT_INPUT_IMPEDANCE == 50

\* impedance=None, or a number
ImpedanceNone == [given |-> FALSE, value |-> 0]
Impedance(value) == [given |-> TRUE, value |-> value]
Impedances == {ImpedanceNone, Impedance(0), Impedance(75)}

InputTypes == {"voltage", "current"}

\* the input component of the analysed copy of the circuit: it is added
\* after the circuit's own components, between ground and the node "in"
InputComponentRef == ComponentRef(Len(components) + 1)
input_component == [nodes |-> <<0, 1>>]

\* the sinks handed to calculate: a node and a component of the circuit,
\* and a component that is not in it
Sinks == {NodeRef(2), ComponentRef(2), ComponentRef(Len(components) + 2)}

\* the responses |H(f)| from the two possible input elements to the sink
\* that the response analysis of the circuit finds
Ones == [f \in Frequencies |-> 1]
Ramp == [f \in Frequencies |-> f]
Projections ==
    {(NodeRef(1) :> Ones) @@ (InputComponentRef :> Ramp),
     (NodeRef(1) :> Ramp) @@ (InputComponentRef :> Ones),
     (NodeRef(1) :> [f \in Frequencies |-> f - 1])
         @@ (InputComponentRef :> [f \in Frequencies |-> 2])}

\* the noise sources of the divider
CalculateSources ==
    {<<>>,
     <<[TYPE |-> "component", element |-> 1, density |-> [f \in Frequencies |-> 2]]>>,
     <<[TYPE |-> "component", element |-> 1, density |-> [f \in Frequencies |-> 2]],
       [TYPE |-> "component", element |-> 2, density |-> [f \in Frequencies |-> 2]]>>,
     <<[TYPE |-> "component", element |-> 1, density |-> [f \in Frequencies |-> 0]],
       [TYPE |-> "node", element |-> 2, density |-> [f \in Frequencies |-> f]]>>}

\* the noise matrix the sweep solves for
SolvedMatrix(scale) ==
    [i \in 0..(dim_size - 1) |-> [f \in Frequencies |-> scale * (2 * i + f) - 3]]

RECURSIVE GCD(_, _)
GCD(a, b) == IF b = 0 THEN a ELSE GCD(b, a % b)

Sign(x) == IF x < 0 THEN -1 ELSE IF x > 0 THEN 1 ELSE 0

\* the values of the solution's series are kept as fractions in lowest
\* terms
Fraction(n) == [num |-> n, den |-> 1]

AsFractions(fs) ==
    [i \in DOMAIN fs |->
        [fs[i] EXCEPT !.series.y = [f \in DOMAIN @ |-> Fraction(@[f])]]]

\* x / y of a fraction x and a number y >= 0; numpy gives inf for x / 0 and
\* nan for 0 / 0, kept as 1/0, -1/0 and 0/0
TrueDivide(x, y) ==
    IF y = 0 \/ x.den = 0 THEN [num |-> Sign(x.num), den |-> 0]
    ELSE LET g == GCD(Abs(x.num), x.den * y)
         IN  [num |-> x.num \div g, den |-> (x.den * y) \div g]

\* series /= magnitude, pointwise
DivideSeries(series, magnitude) ==
    [series EXCEPT !.y = [f \in DOMAIN @ |-> TrueDivide(@[f], magnitude[f])]]

\* the source of the response the noise is referred with
InputElementAlwaysComponent(input_type) == InputComponentRef

InputElement(input_type) ==
    IF input_type = "voltage"
    THEN NodeRef(input_component.nodes[2])
    ELSE InputComponentRef

\* _refer_sink_noise_to_input on the list fs of noise functions
ReferSinkNoiseToInput(fs, input_type) ==
    LET magnitude == analysis.projection[InputElement(input_type)]
    IN  [i \in DOMAIN fs |-> [fs[i] EXCEPT !.series = DivideSeries(@, magnitude)]]

Isqrt(n) == CHOOSE r \in 0..n : r * r <= n /\ (r + 1) * (r + 1) > n

RECURSIVE SumOfSquares(_, _)
SumOfSquares(fs, f) ==
    IF fs = <<>> THEN 0
    ELSE Head(fs).series.y[f] * Head(fs).series.y[f] + SumOfSquares(Tail(fs), f)

\* the aggregated total of the solution's contributions at the sink
NoiseSums(fs, sink) ==
    IF fs = <<>> THEN <<>>
    ELSE <<[source |-> "sum", sink |-> sink,
            series |-> Series(frequencies,
                              [f \in Frequencies |-> Isqrt(SumOfSquares(fs, f))])]>>

\* calculate, lines 51-53: the impedance handed to _do_calculate and
\* whether the warning is logged
InputImpedanceFalsy(impedance) ==
    IF ~impedance.given \/ impedance.value = 0
    THEN [impedance |-> Impedance(DEFAULT_INPUT_IMPEDANCE), warning |-> TRUE]
    ELSE [impedance |-> impedance, warning |-> FALSE]

InputImpedance(impedance) ==
    IF ~impedance.given
    THEN [impedance |-> Impedance(DEFAULT_INPUT_IMPEDANCE), warning |-> TRUE]
    ELSE [impedance |-> impedance, warning |-> FALSE]

InitCalculate ==
    /\ instances = ("Gnd" :> 0)
    /\ nodes = Divider.nodes
    /\ components = Divider.components
    /\ parsed = {}
    /\ ret = NoCall
    /\ noise_sources \in CalculateSources
    /\ noise_sink = NodeRef(0)
    /\ noise_matrix = <<>>
    /\ solution = <<>>
    /\ log = <<>>
    /\ build_result = "pending"
    /\ \E projection \in Projections, scale \in {1, 2}, with_sums \in BOOLEAN :
           analysis = [state |-> "configured", input_type |-> "",
                       impedance |-> ImpedanceNone, projection |-> projection,
                       scale |-> scale, with_sums |-> with_sums,
                       noise_sums |-> <<>>]
    /\ call = NoCalculate
    /\ NoSolution
    /\ NoTools

\* how the sweep driver starts: it refuses an instance that is not
\* configured, finds the right hand side index, and enters the sweep
DriverStartRerun(state, sink) ==
    LET rhs == right_hand_side_index(sink)
    IN  IF rhs.raised # ""
        THEN [state |-> state, pc |-> "done", rhs |-> rhs, result |-> rhs]
        ELSE [state |-> "running", pc |-> "sweep", rhs |-> rhs,
              result |-> Return("none")]

DriverStart(state, sink) ==
    LET rhs == right_hand_side_index(sink)
    IN  IF state # "configured"
        THEN [state |-> state, pc |-> "done", rhs |-> Return("none"),
              result |-> Raise("NotConfigured")]
        ELSE IF rhs.raised # ""
        THEN [state |-> state, pc |-> "done", rhs |-> rhs, result |-> rhs]
        ELSE [state |-> "running", pc |-> "sweep", rhs |-> rhs,
              result |-> Return("none")]

\* calculate(input_type, sink, impedance, input_refer), up to the start of
\* the sweep in _do_calculate
CalculateBegin(input_type, sink, impedance, input_refer) ==
    LET input == InputImpedance(impedance)
        start == DriverStart(analysis.state, sink)
    IN  /\ call.pc = "idle"
        /\ call.n < MaxCalls
        /\ noise_sink' = sink
        /\ log' = IF input.warning
                  THEN Append(log, [level |-> "warning",
                                    message |-> "assuming default input impedance",
                                    sources |-> <<>>])
                  ELSE log
        /\ analysis' = IF start.pc = "sweep"
                       THEN [analysis EXCEPT !.state = start.state,
                                             !.input_type = input_type,
                                             !.impedance = input.impedance,
                                             !.noise_sums = <<>>]
                       ELSE analysis
        /\ solution' = IF start.pc = "sweep" THEN <<>> ELSE solution
        /\ call' = [IdleCall(call.n + 1) EXCEPT
                       !.pc = start.pc, !.input_type = input_type, !.sink = sink,
                       !.impedance = impedance, !.input_refer = input_refer,
                       !.warned = input.warning, !.rhs = start.rhs,
                       !.result = start.result]
        /\ UNCHANGED <<noise_sources, noise_matrix, build_result>>

\* what the driver does at a frequency boundary when the cancel flag is up
AtBoundaryIgnoreCancel(cancel) == "solve"

AtBoundary(cancel) == IF cancel THEN "abort" ELSE "solve"

\* one frequency point of the sweep; between two points the driver polls
\* the cancel flag, and on a cancel discards the solution
SweepPoint ==
    /\ call.pc = "sweep"
    /\ call.swept < NFreq
    /\ IF call.swept >= 1 /\ AtBoundary(call.cancel) = "abort"
       THEN /\ solution' = <<>>
            /\ analysis' = [analysis EXCEPT !.state = "configured", !.noise_sums = <<>>]
            /\ call' = [call EXCEPT !.pc = "done", !.result = Raise("Cancelled")]
       ELSE /\ call' = [call EXCEPT !.swept = @ + 1]
            /\ UNCHANGED <<solution, analysis>>
    /\ UNCHANGED <<noise_sources, noise_sink, noise_matrix, log, build_result>>

\* the cancel flag is raised while the sweep runs
Cancel ==
    /\ call.pc = "sweep"
    /\ ~call.cancel
    /\ call' = [call EXCEPT !.cancel = TRUE, !.cancel_at = call.swept]
    /\ UNCHANGED <<noise_sources, noise_sink, noise_matrix, solution, log,
                   build_result, analysis>>

\* the end of the sweep: _build_solution fills the solution, the totals are
\* aggregated and the analysis is completed
SweepEnd ==
    LET matrix == SolvedMatrix(analysis.scale)
        end == BuildLoop(1, [functions |-> solution, empty |-> <<>>, raised |-> ""],
                         matrix)
        sums == IF analysis.with_sums THEN NoiseSums(end.functions, noise_sink)
                ELSE <<>>
    IN  /\ call.pc = "sweep"
        /\ call.swept = NFreq
        /\ noise_matrix' = matrix
        /\ IF end.raised # ""
           THEN /\ solution' = <<>>
                /\ analysis' = analysis
                /\ call' = [call EXCEPT !.pc = "done", !.result = Raise(end.raised)]
                /\ log' = log
           ELSE /\ solution' = AsFractions(end.functions)
                /\ analysis' = [analysis EXCEPT !.state = "completed",
                                                !.noise_sums = AsFractions(sums)]
                /\ call' = [call EXCEPT !.pc = "built",
                               !.built = [noise |-> AsFractions(end.functions),
                                          noise_sums |-> AsFractions(sums)]]
                /\ log' = IF end.empty # <<>>
                          THEN Append(log, [level |-> "debug",
                                            message |-> "empty noise sources",
                                            sources |-> end.empty])
                          ELSE log
        /\ UNCHANGED <<noise_sources, noise_sink, build_result>>

\* calculate, lines 56-59
CalculateReturn ==
    /\ call.pc = "built"
    /\ IF call.input_refer
       THEN /\ solution' = ReferSinkNoiseToInput(solution, analysis.input_type)
            /\ analysis' = [analysis EXCEPT !.noise_sums =
                               ReferSinkNoiseToInput(@, analysis.input_type)]
       ELSE UNCHANGED <<solution, analysis>>
    /\ call' = [call EXCEPT !.pc = "done", !.result = Return("solution")]
    /\ UNCHANGED <<noise_sources, noise_sink, noise_matrix, log, build_result>>

\* the caller takes what calculate returned or raised
TakeResult ==
    /\ call.pc = "done"
    /\ call' = IdleCall(call.n)
    /\ UNCHANGED <<noise_sources, noise_sink, noise_matrix, solution, log,
                   build_result, analysis>>

NextCalculate ==
    /\ \/ \E input_type \in InputTypes, sink \in Sinks, impedance \in Impedances,
             input_refer \in BOOLEAN :
               CalculateBegin(input_type, sink, impedance, input_refer)
       \/ SweepPoint
       \/ Cancel
       \/ SweepEnd
       \/ CalculateReturn
       \/ TakeResult
    /\ UNCHANGED <<circuitVars, solutionVars, toolVars>>

SpecCalculate == InitCalculate /\ [][NextCalculate]_vars


----------------------------------------------------------------------------
(* Solution.add_tfs, for a solution of the voltage divider whose input is  *)
(* the node "in"                                                           *)

TransferFunction(source, sink, series) ==
    [class |-> "TransferFunction", source |-> source, sink |-> sink,
     series |-> series]

\* circuit.input_node_p
input_node_p == NodeRef(1)

\* the row of a node without the offset of the components
ResultNodeIndexNoOffset(node) == node_index(node)

\* Solution._result_node_index
result_node_index(node) == n_components + node_index(node)

\* the transfer matrices handed to add_tfs: matrices of the solution's
\* shape with rows that differ, and one with a row too few
TfMatrices ==
    {[k \in 1..dim_size |-> [f \in Frequencies |-> scale * k + f + offset]] :
        scale \in 1..3, offset \in 0..3}
    \cup {[k \in 1..(dim_size - 1) |-> [f \in Frequencies |-> 1]]}

\* the loop of add_tfs over zip(node_tfs, non_gnd_nodes), from pair k on
RECURSIVE AddTfsLoop(_, _, _)
AddTfsLoop(k, st, tfs) ==
    IF k > Len(non_gnd_nodes) THEN st
    ELSE LET sink == non_gnd_nodes[k]
             tf == tfs[result_node_index(sink) + 1]
             added == add_function(st.functions,
                          TransferFunction(input_node_p, NodeRef(sink),
                                           Series(frequencies, tf)))
         IN  IF added.raised # ""
             THEN [st EXCEPT !.raised = added.raised]
             ELSE AddTfsLoop(k + 1, [st EXCEPT !.functions = added.functions], tfs)

\* Solution.add_tfs
add_tfs(fs, tfs) ==
    IF Shape(tfs) # <<dim_size, n_frequencies>>
    THEN [functions |-> fs, raised |-> "ValueError"]
    ELSE AddTfsLoop(1, [functions |-> fs, raised |-> ""], tfs)

InitTfs ==
    /\ instances = ("Gnd" :> 0)
    /\ nodes = Divider.nodes
    /\ components = Divider.components
    /\ parsed = {}
    /\ ret = NoCall
    /\ NoAnalysis
    /\ NoSolution
    /\ NoTools

\* solution.add_tfs(tfs)
AddTfs(tfs) ==
    LET end == add_tfs(functions, tfs)
    IN  /\ add_call.n < MaxCalls
        /\ functions' = end.functions
        /\ add_call' = [method |-> "add_tfs", spectra |-> tfs, sink |-> NodeRef(0),
                        raised |-> end.raised, n |-> add_call.n + 1,
                        before |-> functions]
        /\ UNCHANGED noiseVars

NextTfs ==
    (\E tfs \in TfMatrices : AddTfs(tfs)) /\ UNCHANGED <<circuitVars, toolVars>>

SpecTfs == InitTfs /\ [][NextTfs]_vars

----------------------------------------------------------------------------
(* One Solution of the voltage divider that takes add_function, add_tfs    *)
(* and add_noise calls and is read through its filters                     *)

\* isinstance(function, _class)
isinstance(function, class) == function.class = class

\* the elements of a Python list
Elems(list) == {list[k] : k \in DOMAIN list}

\* [function for function in fs if function in keep]
RECURSIVE Comprehension(_, _)
Comprehension(fs, keep) ==
    IF fs = <<>> THEN <<>>
    ELSE IF Head(fs) \in keep THEN <<Head(fs)>> \o Comprehension(Tail(fs), keep)
    ELSE Comprehension(Tail(fs), keep)

\* a filter that forgets the sinks
FilterFunctionSourcesOnly(fs, class, sources, sinks) ==
    LET ofClass == Comprehension(fs, {function \in Elems(fs) :
                                         isinstance(function, class)})
    IN  IF Len(sources) # 0
        THEN Comprehension(ofClass, {function \in Elems(ofClass) :
                                        function.source \in Elems(sources)})
        ELSE ofClass

\* Solution._filter_function
filter_function(fs, class, sources, sinks) ==
    LET ofClass == Comprehension(fs, {function \in Elems(fs) :
                                         isinstance(function, class)})
        bySource == IF Len(sources) # 0
                    THEN Comprehension(ofClass, {function \in Elems(ofClass) :
                                                    function.source \in Elems(sources)})
                    ELSE ofClass
    IN  IF Len(sinks) # 0
        THEN Comprehension(bySource, {function \in Elems(bySource) :
                                         function.sink \in Elems(sinks)})
        ELSE bySource

\* Solution.transfer_functions and Solution.noise_functions
transfer_functions(fs, sources, sinks) ==
    filter_function(fs, "TransferFunction", sources, sinks)

noise_functions(fs, sources, sinks) ==
    filter_function(fs, "NoiseSpectrum", sources, sinks)

\* the lists handed to the filters as sources and as sinks
FilterSources == {<<>>, <<NodeRef(1)>>, <<ComponentRef(1)>>,
                  <<NodeRef(2), ComponentRef(1)>>}
FilterSinks == {<<>>, <<NodeRef(1)>>, <<NodeRef(2)>>, <<ComponentRef(1), NodeRef(2)>>}

\* the matrices handed to add_tfs and add_noise on this solution
MixedTfs ==
    {[k \in 1..dim_size |-> [f \in Frequencies |-> scale * k + f]] : scale \in 1..2}
        \cup {[k \in 1..(dim_size - 1) |-> [f \in Frequencies |-> 1]]}

MixedSpectra ==
    {[k \in 1..dim_size |-> [f \in Frequencies |-> IF k \in zero THEN 0 ELSE 1]] :
        zero \in {{}, {1}, {2, 3}}}

\* the functions handed to add_function directly
MixedFunctions ==
    {TransferFunction(input_node_p, NodeRef(2),
                      Series(frequencies, [f \in Frequencies |-> dim_size + f])),
     NoiseSpectrum(ComponentRef(2), NodeRef(2),
                   Series(frequencies, [f \in Frequencies |-> 1]))}

InitFunctions ==
    /\ instances = ("Gnd" :> 0)
    /\ nodes = Divider.nodes
    /\ components = Divider.components
    /\ parsed = {}
    /\ ret = NoCall
    /\ NoAnalysis
    /\ NoSolution
    /\ NoTools

\* solution.add_function(function)
AddFunction(function) ==
    LET end == add_function(functions, function)
    IN  /\ add_call.n < MaxCalls
        /\ functions' = end.functions
        /\ add_call' = [method |-> "add_function", spectra |-> <<>>,
                        sink |-> function.sink, raised |-> end.raised,
                        n |-> add_call.n + 1, before |-> functions]
        /\ UNCHANGED noiseVars

\* solution.transfer_functions(sources, sinks)
CallTransferFunctions(sources, sinks) ==
    /\ ret' = [kind |-> "transfer_functions", of |-> 0,
               value |-> [sources |-> sources, sinks |-> sinks, before |-> functions,
                          result |-> transfer_functions(functions, sources, sinks)]]
    /\ UNCHANGED <<instances, nodes, components, parsed>>
    /\ UNCHANGED <<noiseVars, solutionVars>>

\* solution.noise_functions(sources, sinks)
CallNoiseFunctions(sources, sinks) ==
    /\ ret' = [kind |-> "noise_functions", of |-> 0,
               value |-> [sources |-> sources, sinks |-> sinks, before |-> functions,
                          result |-> noise_functions(functions, sources, sinks)]]
    /\ UNCHANGED <<instances, nodes, components, parsed>>
    /\ UNCHANGED <<noiseVars, solutionVars>>

NextFunctions ==
    /\ \/ /\ ret = NoCall
          /\ \/ (\E function \in MixedFunctions : AddFunction(function))
                    /\ UNCHANGED circuitVars
             \/ (\E tfs \in MixedTfs : AddTfs(tfs)) /\ UNCHANGED circuitVars
             \/ (\E noise_spectra \in MixedSpectra, sink \in {NodeRef(2), ComponentRef(1)} :
                     AddNoise(noise_spectra, sink))
                    /\ UNCHANGED circuitVars
             \/ \E sources \in FilterSources, sinks \in FilterSinks :
                    CallTransferFunctions(sources, sinks)
             \/ \E sources \in FilterSources, sinks \in FilterSinks :
                    CallNoiseFunctions(sources, sinks)
       \/ Discard /\ UNCHANGED <<noiseVars, solutionVars>>
    /\ UNCHANGED toolVars

SpecFunctions == InitFunctions /\ [][NextFunctions]_vars

----------------------------------------------------------------------------
(* The values of the passive components and ResistorCollection, on a heap   *)
(* that holds ground, the node "n1" and two resistors between them          *)

TYPE_SERIES == 1
TYPE_PARALLEL == 2

ValueInputs == {ValueNone, Number(-1), Number(0), Number(2), Text("2"), Text("1k")}

\* float(value): a number as it is, a string by its decimal reading
float(value) ==
    IF value.kind = "number" THEN Return(value)
    ELSE IF value.kind = "str" /\ value.text = "2" THEN Return(Number(2))
    ELSE IF value.kind = "str" THEN Raise("ValueError")
    ELSE Raise("TypeError")

\* PassiveComponent.value (setter): what is stored in _value
ValueSetter(value) ==
    IF value.kind = "None" THEN Return(ValueNone) ELSE float(value)

TwoResistors ==
    LET heap == NewNodeIn(0 :> Node("Gnd"), "n1")
    IN  [nodes |-> PassiveInit(PassiveInit(heap, 1, 1, 0), 2, 1, 0),
         components |-> <<[cls |-> "Resistor", nodes |-> <<1, 0>>, value |-> Number(2)],
                          [cls |-> "Resistor", nodes |-> <<1, 0>>, value |-> Number(6)]>>]

IsResistorCollection(c) == components[c].cls = "ResistorCollection"

\* the lists of resistors and the vtype handed to ResistorCollection
ResistorLists == {<<>>, <<1>>, <<1, 2>>}
VTypes == {0, TYPE_SERIES, TYPE_PARALLEL, 3}    \* 0 stands for None

\* a / b + c / d
AddFractions(x, y) == [num |-> x.num * y.den + y.num * x.den, den |-> x.den * y.den]

\* num / den in lowest terms with den > 0
Lowest(x) ==
    LET g == GCD(Abs(x.num), Abs(x.den))
    IN  [num |-> Sign(x.den) * (x.num \div g), den |-> Abs(x.den) \div g]

\* sum(resistor.resistance for resistor in resistors)
RECURSIVE SeriesSum(_)
SeriesSum(resistors) ==
    IF resistors = <<>> THEN Return(Fraction(0))
    ELSE LET r == components[Head(resistors)].value
             rest == SeriesSum(Tail(resistors))
         IN  IF r.kind # "number" THEN Raise("TypeError")
             ELSE IF rest.raised # "" THEN rest
             ELSE Return([rest.value EXCEPT !.num = @ + r.n])

\* sum(1 / resistor.resistance for resistor in resistors)
RECURSIVE ParallelSum(_)
ParallelSum(resistors) ==
    IF resistors = <<>> THEN Return(Fraction(0))
    ELSE LET r == components[Head(resistors)].value
             rest == ParallelSum(Tail(resistors))
         IN  IF r.kind # "number" THEN Raise("TypeError")
             ELSE IF r.n = 0 THEN Raise("ZeroDivisionError")
             ELSE IF rest.raised # "" THEN rest
             ELSE Return(AddFractions([num |-> 1, den |-> r.n], rest.value))

\* ResistorCollection.value (getter)
ResistorCollectionValue(c) ==
    IF components[c].vtype = TYPE_SERIES
    THEN SeriesSum(components[c].resistors)
    ELSE LET total == ParallelSum(components[c].resistors)
         IN  IF total.raised # "" THEN total
             ELSE IF total.value.num = 0 THEN Raise("ZeroDivisionError")
             ELSE Return(Lowest([num |-> total.value.den, den |-> total.value.num]))

\* Resistor.resistance
resistance(c) ==
    IF IsResistorCollection(c) THEN ResistorCollectionValue(c)
    ELSE Return(components[c].value)

\* what noise_voltage returns: 0, the Johnson noise sqrt(4 kB T R) of a
\* resistance R, or the object NotImplemented
NoNoise == [kind |-> "number", R |-> Fraction(0)]
Johnson(R) == [kind |-> "sqrt(4 kB T R)", R |-> R]
NotImplemented == [kind |-> "NotImplemented", R |-> Fraction(0)]

\* component.noise_voltage(frequency)
noise_voltage(c) ==
    IF IsResistorCollection(c) THEN Return(NotImplemented)
    ELSE IF components[c].cls = "Resistor"
    THEN IF components[c].value.kind # "number" THEN Raise("TypeError")
         ELSE Return(Johnson(Fraction(components[c].value.n)))
    ELSE Return(NoNoise)

\* component.impedance(frequency), kept as the formula and its operands
impedance(c, f) ==
    LET value == components[c].value
    IN  IF IsResistorCollection(c) \/ components[c].cls = "Resistor"
        THEN IF resistance(c).raised # "" THEN resistance(c)
             ELSE Return([formula |-> "R", f |-> f, of |-> resistance(c).value])
        ELSE IF value.kind # "number" THEN Raise("TypeError")
        ELSE IF components[c].cls = "Capacitor"
        THEN IF value.n = 0 THEN Raise("ZeroDivisionError")
             ELSE Return([formula |-> "1 / (2 pi j f C)", f |-> f, of |-> value])
        ELSE Return([formula |-> "2 pi j f L", f |-> f, of |-> value])

InitValue ==
    /\ instances = ("Gnd" :> 0)
    /\ nodes = TwoResistors.nodes
    /\ components = TwoResistors.components
    /\ parsed = {}
    /\ ret = NoCall
    /\ NoAnalysis
    /\ NoSolution
    /\ NoTools

\* Resistor / Capacitor / Inductor (value=, node1=, node2=)
NewPassiveValue(cls, value, node1, node2) ==
    LET stored == ValueSetter(value)
    IN  /\ Len(components) < MaxComponents + Len(TwoResistors.components)
        /\ IF stored.raised # ""
           THEN /\ ret' = [kind |-> "init", of |-> 0, value |-> stored]
                /\ UNCHANGED <<components, nodes>>
           ELSE /\ components' = Append(components,
                                        [cls |-> cls, nodes |-> <<node1, node2>>,
                                         value |-> stored.value])
                /\ nodes' = PassiveInit(nodes, Len(components) + 1, node1, node2)
                /\ ret' = NoCall
        /\ UNCHANGED <<instances, parsed>>

\* ResistorCollection(resistors, vtype, node1=, node2=): the parent's
\* constructor registers the collection at its nodes before vtype is tested
NewResistorCollection(resistors, vtype, node1, node2) ==
    /\ Len(components) < MaxComponents + Len(TwoResistors.components)
    /\ components' = Append(components,
                            [cls |-> "ResistorCollection", nodes |-> <<node1, node2>>,
                             value |-> ValueNone, resistors |-> resistors,
                             vtype |-> IF vtype = 0 THEN TYPE_SERIES ELSE vtype,
                             built |-> vtype \in {0, TYPE_SERIES, TYPE_PARALLEL}])
    /\ nodes' = PassiveInit(nodes, Len(components) + 1, node1, node2)
    /\ ret' = IF vtype \in {0, TYPE_SERIES, TYPE_PARALLEL} THEN NoCall
              ELSE [kind |-> "init", of |-> 0, value |-> Raise("ValueError")]
    /\ UNCHANGED <<instances, parsed>>

\* component.value = value
SetValue(c, value) ==
    LET stored == ValueSetter(value)
    IN  /\ components' = IF stored.raised # "" THEN components
                         ELSE [components EXCEPT ![c].value = stored.value]
        /\ ret' = [kind |-> "value", of |-> c, value |-> stored]
        /\ UNCHANGED <<instances, nodes, parsed>>

\* component.impedance(f)
CallImpedance(c, f) ==
    /\ ret' = [kind |-> "impedance", of |-> c, value |-> impedance(c, f)]
    /\ UNCHANGED <<instances, nodes, components, parsed>>

\* component.noise_voltage(f)
CallNoiseVoltage(c) ==
    /\ ret' = [kind |-> "noise_voltage", of |-> c, value |-> noise_voltage(c)]
    /\ UNCHANGED <<instances, nodes, components, parsed>>

\* the components whose construction has ended
Built == {c \in DOMAIN components :
             IsResistorCollection(c) => components[c].built}

\* the calls made on the components, one after the other
UseValues ==
    \/ /\ ret = NoCall
       /\ \/ \E cls \in PassiveClasses, value \in ValueInputs,
                node1, node2 \in DOMAIN nodes :
                  NewPassiveValue(cls, value, node1, node2)
          \/ \E resistors \in ResistorLists, vtype \in VTypes,
                node1, node2 \in DOMAIN nodes :
                  NewResistorCollection(resistors, vtype, node1, node2)
          \/ \E c \in Built, value \in ValueInputs : SetValue(c, value)
          \/ \E c \in Built, f \in Frequencies : CallImpedance(c, f)
          \/ \E c \in Built : CallNoiseVoltage(c)
          \/ \E c \in DOMAIN components : CallPassiveEquation(c)
    \/ Discard

NextValue == UseValues /\ UNCHANGED <<noiseVars, solutionVars, toolVars>>

SpecValue == InitValue /\ [][NextValue]_vars

----------------------------------------------------------------------------
(* OpAmp.gain and OpAmp.inverse_gain in floating point.  A float is kept   *)
(* as a fraction num / den; den = 0 stands for the values that are not     *)
(* finite: 1/0 is inf, -1/0 is -inf and 0/0 is nan.                        *)

Inf == [num |-> 1, den |-> 0]
NaN == [num |-> 0, den |-> 0]

IsNaN(x) == x.den = 0 /\ x.num = 0
IsInf(x) == x.den = 0 /\ x.num # 0

\* the float of the fraction x
Float(x) == IF x.den = 0 THEN [num |-> Sign(x.num), den |-> 0] ELSE Lowest(x)

\* x * y: inf * 0 is nan
FloatMul(x, y) == Float([num |-> x.num * y.num, den |-> x.den * y.den])

FloatNeg(x) == [num |-> -x.num, den |-> x.den]

\* x + y: inf + -inf is nan
FloatAdd(x, y) ==
    IF IsNaN(x) \/ IsNaN(y) THEN NaN
    ELSE IF IsInf(x) /\ IsInf(y) THEN (IF x = y THEN x ELSE NaN)
    ELSE IF IsInf(x) THEN x
    ELSE IF IsInf(y) THEN y
    ELSE Float(AddFractions(x, y))

FloatSub(x, y) == FloatAdd(x, FloatNeg(y))

\* x / y as the hardware divides: finite / inf is 0, inf / inf is nan,
\* 0 / 0 is nan, and another x / 0 is inf
FloatDiv(x, y) ==
    IF IsNaN(x) \/ IsNaN(y) THEN NaN
    ELSE IF IsInf(y) THEN (IF IsInf(x) THEN NaN ELSE Fraction(0))
    ELSE Float([num |-> x.num * y.den, den |-> x.den * y.num])

FloatAbs(x) == [num |-> Abs(x.num), den |-> x.den]

\* x >= y for x, y >= 0; a comparison with nan is false
FloatGe(x, y) ==
    IF IsNaN(x) \/ IsNaN(y) THEN FALSE
    ELSE IF IsInf(x) THEN TRUE
    ELSE IF IsInf(y) THEN FALSE
    ELSE x.num * y.den >= y.num * x.den

\* complex numbers of two floats
Complex(re, im) == [re |-> re, im |-> im]
FromReal(x) == Complex(x, Fraction(0))
ImaginaryUnit == Complex(Fraction(0), Fraction(1))      \* 1j

IsComplexNaN(z) == IsNaN(z.re) \/ IsNaN(z.im)
IsComplexInf(z) == ~IsComplexNaN(z) /\ (IsInf(z.re) \/ IsInf(z.im))

ComplexAdd(a, b) == Complex(FloatAdd(a.re, b.re), FloatAdd(a.im, b.im))

\* a * b, both operands complex: (ac - bd) + (ad + bc)j
ComplexMul(a, b) ==
    Complex(FloatSub(FloatMul(a.re, b.re), FloatMul(a.im, b.im)),
            FloatAdd(FloatMul(a.re, b.im), FloatMul(a.im, b.re)))

\* a / b, both operands complex, by the scaled division of the complex type
ComplexDiv(a, b) ==
    IF FloatGe(FloatAbs(b.re), FloatAbs(b.im))
    THEN LET ratio == FloatDiv(b.im, b.re)
             denom == FloatAdd(b.re, FloatMul(b.im, ratio))
         IN  Complex(FloatDiv(FloatAdd(a.re, FloatMul(a.im, ratio)), denom),
                     FloatDiv(FloatSub(a.im, FloatMul(a.re, ratio)), denom))
    ELSE IF FloatGe(FloatAbs(b.im), FloatAbs(b.re))
    THEN LET ratio == FloatDiv(b.re, b.im)
             denom == FloatAdd(FloatMul(b.re, ratio), b.im)
         IN  Complex(FloatDiv(FloatAdd(FloatMul(a.re, ratio), a.im), denom),
                     FloatDiv(FloatSub(FloatMul(a.im, ratio), a.re), denom))
    ELSE Complex(NaN, NaN)

\* np.prod(1 + 1j * frequency / array): 1 for the empty array
RECURSIVE ProdOnePlus(_, _)
ProdOnePlus(f, array) ==
    IF array = <<>> THEN FromReal(Fraction(1))
    ELSE ComplexMul(ComplexAdd(FromReal(Fraction(1)),
                               ComplexDiv(ComplexMul(ImaginaryUnit, FromReal(Fraction(f))),
                                          FromReal(Fraction(Head(array))))),
                    ProdOnePlus(f, Tail(array)))

\* the class attributes of OpAmp, which a subclass replaces
DELAY == 0
IdealOpAmp == [A0 |-> Inf, GBW |-> Inf, ZEROS |-> <<>>, POLES |-> <<>>]

OpAmpA0s == {Inf, Fraction(4), Fraction(2)}
OpAmpGBWs == {Inf, Fraction(8)}
OpAmpArrays == {<<>>, <<2>>}

\* np.exp(-1j * 2 * np.pi * self.DELAY * frequency), DELAY being 0
ExpDelay(f) == FromReal(Fraction(1))

\* OpAmp.gain(frequency)
gain(c, f) ==
    LET op == components[c].params
        A0 == FromReal(op.A0)
        rolloff == ComplexDiv(ComplexMul(ComplexMul(A0, ImaginaryUnit),
                                         FromReal(Fraction(f))),
                              FromReal(op.GBW))
        open_loop == ComplexDiv(A0, ComplexAdd(FromReal(Fraction(1)), rolloff))
    IN  ComplexDiv(ComplexMul(ComplexMul(open_loop, ExpDelay(f)),
                              ProdOnePlus(f, op.ZEROS)),
                   ProdOnePlus(f, op.POLES))

\* OpAmp.inverse_gain(frequency)
inverse_gain(c, f) == ComplexDiv(FromReal(Fraction(1)), gain(c, f))

\* an op-amp between the nodes "n1", "n2" and "n3"
OneOpAmp(params) ==
    LET heap == NewNodeIn(NewNodeIn(NewNodeIn(0 :> Node("Gnd"), "n1"), "n2"), "n3")
    IN  [nodes |-> OpAmpInit(heap, 1, 1, 2, 3),
         components |-> <<[cls |-> "OpAmp", nodes |-> <<1, 2, 3>>, params |-> params]>>]

InitGain ==
    /\ instances = ("Gnd" :> 0)
    /\ \E A0 \in OpAmpA0s, GBW \in OpAmpGBWs, ZEROS, POLES \in OpAmpArrays :
           LET heap == OneOpAmp([A0 |-> A0, GBW |-> GBW, ZEROS |-> ZEROS, POLES |-> POLES])
           IN  nodes = heap.nodes /\ components = heap.components
    /\ parsed = {}
    /\ ret = NoCall
    /\ NoAnalysis
    /\ NoSolution
    /\ NoTools

\* opamp.gain(f)
CallGain(c, f) ==
    /\ ret' = [kind |-> "gain", of |-> c, f |-> f, value |-> gain(c, f)]
    /\ UNCHANGED <<instances, nodes, components, parsed>>

\* opamp.inverse_gain(f)
CallInverseGain(c, f) ==
    /\ ret' = [kind |-> "inverse_gain", of |-> c, f |-> f, value |-> inverse_gain(c, f)]
    /\ UNCHANGED <<instances, nodes, components, parsed>>

UseGain ==
    \/ /\ ret = NoCall
       /\ \/ \E c \in DOMAIN components, f \in Frequencies : CallGain(c, f)
          \/ \E c \in DOMAIN components, f \in Frequencies : CallInverseGain(c, f)
    \/ Discard

NextGain == UseGain /\ UNCHANGED <<noiseVars, solutionVars, toolVars>>

SpecGain == InitGain /\ [][NextGain]_vars

----------------------------------------------------------------------------
(* The configuration singletons of zero/config.py: ZeroConfig and the      *)
(* op-amp library                                                           *)

\* str.upper() on the names in use
upper(name) ==
    CASE name \in {"op27", "Op27", "OP27"} -> "OP27"
      [] name \in {"ad797", "AD797"} -> "AD797"
      [] OTHER -> name

\* the names and the data handed to the library's methods
OpAmpNames == {"op27", "OP27", "ad797"}
OpAmpData == {"data 1", "data 2"}

\* a name used as it is written
FormatNameAsWritten(name) == name

\* OpAmpLibrary.format_name
format_name(name) == upper(name)

\* OpAmpLibrary.add_data on a library lib = [data, adds]; adds is the
\* history of the add_data calls made on it
add_data(lib, name, data) ==
    LET key == format_name(name)
    IN  IF key \in DOMAIN lib.data
        THEN [data |-> lib.data,
              adds |-> Append(lib.adds, [name |-> name, data |-> data,
                                         raised |-> "ValueError"]),
              raised |-> "ValueError"]
        ELSE [data |-> lib.data @@ (key :> data),
              adds |-> Append(lib.adds, [name |-> name, data |-> data, raised |-> ""]),
              raised |-> ""]

\* OpAmpLibrary.get_data
get_data(lib, name) ==
    LET model == format_name(name)
    IN  IF model \in DOMAIN lib.data THEN Return(lib.data[model])
        ELSE Raise("ValueError")

\* OpAmpLibrary.has_data
has_data(lib, name) == format_name(name) \in DOMAIN lib.data

\* add_data for each name of a list in turn, until one raises
RECURSIVE AddEach(_, _, _)
AddEach(lib, names, data) ==
    IF names = <<>> \/ lib.raised # "" THEN lib
    ELSE AddEach(add_data(lib, Head(names), data), Tail(names), data)

\* OpAmpLibrary._parse_lib_data: the section's name, then its aliases
parse_lib_data(lib, section) ==
    AddEach(lib, <<section.name>> \o section.aliases, section.data)

\* OpAmpLibrary.populate_library over self.sections()
RECURSIVE populate_library(_, _)
populate_library(lib, sections) ==
    IF sections = <<>> \/ lib.raised # "" THEN lib
    ELSE populate_library(parse_lib_data(lib, Head(sections)), Tail(sections))

\* a section of a library file
Section(name, aliases, data) == [name |-> name, aliases |-> aliases, data |-> data]

\* what the config files hold when a class is called: whether they can be
\* parsed, and the sections of the library
ConfigFiles ==
    {[malformed |-> TRUE, sections |-> <<>>]}
    \cup {[malformed |-> FALSE, sections |-> sections] :
            sections \in {<<>>,
                          <<Section("op27", <<>>, "data 1")>>,
                          <<Section("ad797", <<"Op27">>, "data 2")>>,
                          <<Section("op27", <<"AD797">>, "data 1"),
                            Section("ad797", <<>>, "data 2")>>,
                          <<Section("OP27", <<>>, "data 1"),
                            Section("op27", <<>>, "data 2")>>}}

ConfigArgs == {"", "strict=False"}

\* BaseConfig.__init__ and OpAmpLibrary.__init__: the new object, or the
\* exception that ends the constructor
ConfigInit(cls, args, file) ==
    IF file.malformed THEN Raise("ParsingError")
    ELSE IF cls = "OpAmpLibrary"
    THEN LET lib == populate_library([data |-> <<>>, adds |-> <<>>, raised |-> ""],
                                     file.sections)
         IN  IF lib.raised # "" THEN Raise(lib.raised)
             ELSE Return([cls |-> cls, data |-> lib.data, adds |-> lib.adds,
                          populated |-> Len(lib.adds), loaded |-> TRUE])
    ELSE Return([cls |-> cls, data |-> <<>>, adds |-> <<>>, populated |-> 0,
                 loaded |-> FALSE])

\* a registry that is never consulted
InRegistryNever(cls) == FALSE

\* cls in cls._SINGLETON_REGISTRY
InRegistry(cls) == cls \in DOMAIN registry

\* cls(*args): SingletonAbstractMeta.__call__
CallConfig(cls, args, file) ==
    IF InRegistry(cls)
    THEN /\ ret' = [kind |-> "config", of |-> 0,
                    value |-> [cls |-> cls, ran_init |-> FALSE,
                               result |-> Return(registry[cls])]]
         /\ UNCHANGED <<registry, configs, init_calls>>
    ELSE LET new == ConfigInit(cls, args, file)
         IN  /\ init_calls[cls] < MaxCalls
             /\ init_calls' = [init_calls EXCEPT ![cls] = @ + 1]
             /\ IF new.raised # ""
                THEN /\ ret' = [kind |-> "config", of |-> 0,
                                value |-> [cls |-> cls, ran_init |-> TRUE, result |-> new]]
                     /\ UNCHANGED <<registry, configs>>
                ELSE /\ configs' = Append(configs, new.value)
                     /\ registry' = registry @@ (cls :> (Len(configs) + 1))
                     /\ ret' = [kind |-> "config", of |-> 0,
                                value |-> [cls |-> cls, ran_init |-> TRUE,
                                           result |-> Return(Len(configs) + 1)]]

\* the library object, once OpAmpLibrary() has returned
HasLibrary == "OpAmpLibrary" \in DOMAIN registry
Library == configs[registry["OpAmpLibrary"]]

\* OpAmpLibrary().add_data(name, data)
AddData(name, data) ==
    LET id == registry["OpAmpLibrary"]
        end == add_data([data |-> Library.data, adds |-> Library.adds, raised |-> ""],
                        name, data)
    IN  /\ HasLibrary
        /\ Len(Library.adds) - Library.populated < MaxAdds
        /\ configs' = [configs EXCEPT ![id].data = end.data, ![id].adds = end.adds]
        /\ ret' = [kind |-> "add_data", of |-> id,
                   value |-> [name |-> name, result |-> Raise(end.raised),
                              before |-> Library.data]]
        /\ UNCHANGED <<registry, init_calls>>

\* OpAmpLibrary().get_data(name)
GetData(name) ==
    /\ HasLibrary
    /\ ret' = [kind |-> "get_data", of |-> registry["OpAmpLibrary"],
               value |-> [name |-> name, result |-> get_data(Library, name),
                          before |-> Library.data]]
    /\ UNCHANGED <<registry, configs, init_calls>>

\* OpAmpLibrary().has_data(name)
HasData(name) ==
    /\ HasLibrary
    /\ ret' = [kind |-> "has_data", of |-> registry["OpAmpLibrary"],
               value |-> [name |-> name, result |-> Return(has_data(Library, name)),
                          before |-> Library.data]]
    /\ UNCHANGED <<registry, configs, init_calls>>

InitConfig ==
    /\ instances = <<>>
    /\ nodes = <<>>
    /\ components = <<>>
    /\ parsed = {}
    /\ ret = NoCall
    /\ NoAnalysis
    /\ NoSolution
    /\ NoTools

NextConfig ==
    /\ \/ \E cls \in ConfigClasses, args \in ConfigArgs, file \in ConfigFiles :
              CallConfig(cls, args, file)
       \/ \E name \in OpAmpNames, data \in OpAmpData : AddData(name, data)
       \/ \E name \in OpAmpNames : GetData(name)
       \/ \E name \in OpAmpNames : HasData(name)
    /\ UNCHANGED <<instances, nodes, components, parsed>>
    /\ UNCHANGED <<noiseVars, solutionVars, resistor_set, parser>>

SpecConfig == InitConfig /\ [][NextConfig]_vars

----------------------------------------------------------------------------
(* The resistor Set of electronics/components.py and its combinations      *)

SERIES_E3 == 1
SERIES_E6 == 2
SERIES_E24 == 4
SERIES_CUSTOM == 8

TOL_GOLD == 5

\* VALUES_E24, in tenths
VALUES_E24 == <<10, 11, 12, 13, 15, 16, 18, 20, 22, 24, 27, 30,
                33, 36, 39, 43, 47, 51, 56, 62, 68, 75, 82, 91>>

\* list[::step]
Stride(list, step) ==
    [k \in 1..((Len(list) + step - 1) \div step) |-> list[(k - 1) * step + 1]]

\* Set._base_numbers
base_numbers(set) ==
    IF set.series = SERIES_E24 THEN Return(VALUES_E24)
    ELSE IF set.series = SERIES_E6 THEN Return(Stride(VALUES_E24, 4))
    ELSE IF set.series = SERIES_E3 THEN Return(Stride(VALUES_E24, 8))
    ELSE Raise("ValueError")

\* Resistor(value=, tolerance=, node1=, node2=): PassiveComponent.__init__,
\* which calls add_sink on node1 and add_source on node2
NewResistor(value, tolerance, node1, node2) ==
    IF node1 = None \/ node2 = None THEN Raise("AttributeError")
    ELSE Return([cls |-> "Resistor", value |-> value, tolerance |-> tolerance,
                 nodes |-> <<node1, node2>>])

\* ResistorCollection(resistors=, vtype=): the parent's constructor first
NewCollection(resistors, vtype) ==
    LET parent == NewResistor(ValueNone, None, None, None)
    IN  IF parent.raised # "" THEN parent
        ELSE Return([cls |-> "ResistorCollection", resistors |-> resistors,
                     vtype |-> vtype])

RECURSIVE Pow10(_)
Pow10(exp) == IF exp = 0 THEN 1 ELSE 10 * Pow10(exp - 1)

\* what a generator hands to its consumer: the items yielded, then the
\* exception that ended it, if any
Yielded(items, raised) == [items |-> items, raised |-> raised]

\* the loops of Set._base_resistors from (exp, k) on, k the position in the
\* base numbers
RECURSIVE BaseResistorsLoop(_, _, _, _)
BaseResistorsLoop(set, exp, k, items) ==
    IF exp > set.max_exp THEN Yielded(items, "")
    ELSE IF base_numbers(set).raised # "" THEN Yielded(items, base_numbers(set).raised)
    ELSE IF k > Len(base_numbers(set).value)
    THEN BaseResistorsLoop(set, exp + 1, 1, items)
    ELSE LET base == base_numbers(set).value[k]
             new == NewResistor(Lowest([num |-> base * Pow10(exp), den |-> 10]),
                                set.tolerance, None, None)
         IN  IF new.raised # "" THEN Yielded(items, new.raised)
             ELSE BaseResistorsLoop(set, exp, k + 1, Append(items, new.value))

\* Set._base_resistors
base_resistors(set) ==
    IF set.min_exp > set.max_exp THEN Yielded(<<>>, "ValueError")
    ELSE BaseResistorsLoop(set, set.min_exp, 1, <<>>)

\* x followed by each tuple of a list of tuples
RECURSIVE Prefixed(_, _)
Prefixed(x, tuples) ==
    IF tuples = <<>> THEN <<>>
    ELSE <<<<x>> \o Head(tuples)>> \o Prefixed(x, Tail(tuples))

\* itertools.combinations_with_replacement(values, count)
RECURSIVE combinations_with_replacement(_, _)
combinations_with_replacement(values, count) ==
    IF count = 0 THEN <<<<>>>>
    ELSE IF values = <<>> THEN <<>>
    ELSE Prefixed(Head(values), combinations_with_replacement(values, count - 1))
             \o combinations_with_replacement(Tail(values), count)

RECURSIVE ValueCombinationsLoop(_, _, _)
ValueCombinationsLoop(values, count, max_count) ==
    IF count > max_count THEN <<>>
    ELSE combinations_with_replacement(values, count)
             \o ValueCombinationsLoop(values, count + 1, max_count)

\* Set._value_combinations on the generator `values`
value_combinations(values, min_count, max_count) ==
    IF values.raised # "" THEN Yielded(<<>>, values.raised)
    ELSE IF min_count > max_count THEN Yielded(<<>>, "ValueError")
    ELSE IF max_count < 2 THEN Yielded(<<>>, "")
    ELSE Yielded(ValueCombinationsLoop(values.items, min_count, max_count), "")

\* a ResistorCollection of the given vtype for each tuple, until one
\* constructor raises
RECURSIVE Collections(_, _, _)
Collections(tuples, vtype, items) ==
    IF tuples = <<>> THEN Yielded(items, "")
    ELSE LET new == NewCollection(Head(tuples), vtype)
         IN  IF new.raised # "" THEN Yielded(items, new.raised)
             ELSE Collections(Tail(tuples), vtype, Append(items, new.value))

\* Set._series_combinations and Set._parallel_combinations
series_combinations(set) ==
    LET tuples == value_combinations(base_resistors(set), set.min_series,
                                     set.max_series)
    IN  IF tuples.raised # "" THEN tuples
        ELSE Collections(tuples.items, TYPE_SERIES, <<>>)

parallel_combinations(set) ==
    LET tuples == value_combinations(base_resistors(set), set.min_parallel,
                                     set.max_parallel)
    IN  IF tuples.raised # "" THEN tuples
        ELSE Collections(tuples.items, TYPE_PARALLEL, <<>>)

\* one generator after another (yield from ... ; yield from ...)
Chain(first, second) ==
    IF first.raised # "" THEN first
    ELSE Yielded(first.items \o second.items, second.raised)

\* Set.combinations
combinations(set) ==
    LET singles == IF set.min_series < 2 \/ set.min_parallel < 2
                   THEN base_resistors(set)
                   ELSE Yielded(<<>>, "")
    IN  Chain(singles, Chain(series_combinations(set), parallel_combinations(set)))

\* _n_comb_k(n, k, repetition=True): the multisets of size k from n values
RECURSIVE n_comb_k(_, _)
n_comb_k(n, k) ==
    IF k = 0 THEN 1
    ELSE IF n = 0 THEN 0
    ELSE n_comb_k(n, k - 1) + n_comb_k(n - 1, k)

RECURSIVE SumCombK(_, _, _)
SumCombK(n, i, max) ==
    IF i > max THEN 0 ELSE n_comb_k(n, i) + SumCombK(n, i + 1, max)

\* Set.n_combinations
n_combinations(set) ==
    LET listed == base_resistors(set)
        n_base_resistors == Len(listed.items)
    IN  IF listed.raised # "" THEN Raise(listed.raised)
        ELSE Return((IF set.min_series < 2 \/ set.min_parallel < 2
                     THEN n_base_resistors ELSE 0)
                    + (IF set.max_series >= 2
                       THEN SumCombK(n_base_resistors, set.min_series, set.max_series)
                       ELSE 0)
                    + (IF set.max_parallel >= 2
                       THEN SumCombK(n_base_resistors, set.min_parallel,
                                     set.max_parallel)
                       ELSE 0))

\* the arguments handed to Set(...)
SetSeries == {SERIES_E3, SERIES_E6, SERIES_CUSTOM}
SetExps == 0..1
SetCounts == 1..2

\* Set(series=, tolerance=, max_exp=, min_exp=, max_series=, ...)
NewSet(series, max_exp, min_exp, max_series, min_series, max_parallel, min_parallel) ==
    /\ resistor_set = NoSet
    /\ resistor_set' = [series |-> series, tolerance |-> TOL_GOLD,
                        max_exp |-> max_exp, min_exp |-> min_exp,
                        max_series |-> max_series, min_series |-> min_series,
                        max_parallel |-> max_parallel, min_parallel |-> min_parallel]
    /\ ret' = NoCall

\* list(set._base_resistors())
CallBaseResistors ==
    /\ resistor_set # NoSet
    /\ ret' = [kind |-> "base_resistors", of |-> 0, value |-> base_resistors(resistor_set)]
    /\ UNCHANGED resistor_set

\* set.n_combinations() and len(list(set.combinations())), side by side
CallCombinations ==
    /\ resistor_set # NoSet
    /\ ret' = [kind |-> "combinations", of |-> 0,
               value |-> [n_combinations |-> n_combinations(resistor_set),
                          combinations |-> combinations(resistor_set)]]
    /\ UNCHANGED resistor_set

InitSet ==
    /\ instances = <<>>
    /\ nodes = <<>>
    /\ components = <<>>
    /\ parsed = {}
    /\ ret = NoCall
    /\ NoAnalysis
    /\ NoSolution
    /\ NoTools

NextSet ==
    /\ \/ \E series \in SetSeries, max_exp, min_exp \in SetExps,
             max_series, min_series, max_parallel, min_parallel \in SetCounts :
               NewSet(series, max_exp, min_exp, max_series, min_series,
                      max_parallel, min_parallel)
       \/ CallBaseResistors
       \/ CallCombinations
    /\ UNCHANGED <<instances, nodes, components, parsed>>
    /\ UNCHANGED <<noiseVars, solutionVars, registry, configs, init_calls, parser>>

SpecSet == InitSet /\ [][NextSet]_vars

----------------------------------------------------------------------------
(* The regulator of calc/regulator.py                                       *)

TYPE_LM317 == 1
TYPE_LM337 == 2

\* Regulator.type (setter), on str(reg_type).lower()
RegulatorType(reg_type) ==
    IF reg_type = "lm317" THEN Return(TYPE_LM317)
    ELSE IF reg_type = "lm337" THEN Return(TYPE_LM337)
    ELSE Raise("ValueError")

\* what resistor_set.combinations() yields, for the Set of calc/resistor.py:
\* a finite list of resistors, given by their resistance in ohms
RECURSIVE ListsOf(_, _)
ListsOf(set, len) ==
    IF len = 0 THEN {<<>>}
    ELSE ListsOf(set, len - 1)
             \cup {Append(list, x) : list \in ListsOf(set, len - 1), x \in set}

Resistances == {1, 2, 3}
SetCombinations == ListsOf(Resistances, MaxCombinations)

\* itertools.permutations(range(1, n + 1), 2): the ordered pairs of two
\* different positions, in lexicographic order
permutations(n) ==
    [k \in 1..(n * (n - 1)) |->
        LET i == ((k - 1) \div (n - 1)) + 1
            j == ((k - 1) % (n - 1)) + 1
        IN  <<i, IF j < i THEN j ELSE j + 1>>]

\* Regulator._regulated_voltage with swapped resistors
RegulatedVoltageSwapped(type, r1, r2) ==
    IF type \in {TYPE_LM317, TYPE_LM337}
    THEN Return(Lowest([num |-> 5 * (r2 + r1), den |-> 4 * r2]))
    ELSE Raise("ValueError")

\* Regulator._regulated_voltage on the resistances of resistors[0] and
\* resistors[1]: 1.25 * (1 + r2 / r1)
regulated_voltage(type, r1, r2) ==
    IF type \in {TYPE_LM317, TYPE_LM337}
    THEN Return(Lowest([num |-> 5 * (r1 + r2), den |-> 4 * r1]))
    ELSE Raise("ValueError")

\* Regulator.regulated_voltages: the tuple (voltage, *pair) of each pair,
\* the resistors given by their positions in the combinations
regulated_voltages(type, combs, pairs) ==
    [k \in 1..Len(pairs) |->
        <<regulated_voltage(type, combs[pairs[k][1]], combs[pairs[k][2]]).value,
          pairs[k][1], pairs[k][2]>>]

\* abs(i[0] - voltage)
AbsDifference(v, voltage) ==
    Lowest([num |-> Abs(v.num * voltage.den - voltage.num * v.den),
            den |-> v.den * voltage.den])

FractionLess(x, y) == x.num * y.den < y.num * x.den

\* item put into a list sorted by the key, after the items whose key is
\* not greater
RECURSIVE InsertByKey(_, _, _)
InsertByKey(sorted, item, voltage) ==
    IF sorted = <<>> THEN <<item>>
    ELSE IF FractionLess(AbsDifference(item[1], voltage),
                         AbsDifference(Head(sorted)[1], voltage))
    THEN <<item>> \o sorted
    ELSE <<Head(sorted)>> \o InsertByKey(Tail(sorted), item, voltage)

RECURSIVE SortedByKey(_, _)
SortedByKey(items, voltage) ==
    IF items = <<>> THEN <<>>
    ELSE InsertByKey(SortedByKey(SubSeq(items, 1, Len(items) - 1), voltage),
                     items[Len(items)], voltage)

\* heapq.nsmallest(n, items, key=lambda i: abs(i[0] - voltage)): the n
\* items of smallest key in ascending order of the key, earlier items first
\* among equal keys; nothing is pulled from the iterable when n <= 0
nsmallest(n, items, voltage) ==
    IF n <= 0 THEN [pulled |-> 0, result |-> <<>>]
    ELSE [pulled |-> Len(items),
          result |-> SubSeq(SortedByKey(items, voltage), 1, Min(n, Len(items)))]

\* the arguments of Regulator(...) and of resistors_for_voltage
RegulatorTypes == {"lm317", "lm337", "lm7805"}
Voltages == {Fraction(2), Fraction(5), [num |-> 15, den |-> 4]}
NValues == 0..MaxCombinations

\* Regulator(reg_type).resistors_for_voltage(voltage, resistor_set, n_values)
ResistorsForVoltage(reg_type, voltage, n_values) ==
    LET type == RegulatorType(reg_type)
        combs == resistor_set.combinations
        voltages == regulated_voltages(type.value, combs, permutations(Len(combs)))
        smallest == nsmallest(n_values, voltages, voltage)
    IN  ret' = [kind |-> "resistors_for_voltage", of |-> 0,
                value |-> [voltage |-> voltage, combinations |-> combs,
                           n_values |-> n_values,
                           raised |-> type.raised,
                           pulled |-> IF type.raised # "" THEN 0 ELSE smallest.pulled,
                           result |-> IF type.raised # "" THEN <<>>
                                      ELSE smallest.result]]

InitRegulator ==
    /\ instances = <<>>
    /\ nodes = <<>>
    /\ components = <<>>
    /\ parsed = {}
    /\ ret = NoCall
    /\ NoAnalysis
    /\ NoSolution
    /\ registry = <<>>
    /\ configs = <<>>
    /\ init_calls = [cls \in ConfigClasses |-> 0]
    /\ parser = NoParser
    /\ \E combs \in SetCombinations : resistor_set = [combinations |-> combs]

NextRegulator ==
    /\ \E reg_type \in RegulatorTypes, voltage \in Voltages, n_values \in NValues :
            ResistorsForVoltage(reg_type, voltage, n_values)
    /\ UNCHANGED <<instances, nodes, components, parsed>>
    /\ UNCHANGED <<noiseVars, solutionVars, toolVars>>

SpecRegulator == InitRegulator /\ [][NextRegulator]_vars

----------------------------------------------------------------------------
(* The LISO input parser of electronics/simulate/liso.py                    *)

COMPONENTS == {"r", "c", "l", "op"}

\* InputParser.DIRECTIVES and the directives property
DIRECTIVES == [input_nodes |-> {"uinput", "vinput"},
               output_nodes |-> {"uoutput", "voutput"},
               noise_node |-> {"noise"},
               frequencies |-> {"freq"}]

directives == UNION {DIRECTIVES[key] : key \in DOMAIN DIRECTIVES}

\* a line of the file: the whitespace it starts with and its tokens
Line(lead, tokens) == [lead |-> lead, tokens |-> tokens]

\* line.startswith("#")
StartsWithHash(line) ==
    line.lead = "" /\ line.tokens # <<>> /\ line.tokens[1] \in {"#", "#r"}

\* the lines the file may hold
Lines ==
    {Line("", <<>>),
     Line("", <<"#", "r", "r1", "2", "n1", "n2">>),
     Line(" ", <<"#", "comment">>),
     Line("", <<"r", "r1", "2", "n1", "n2">>),
     Line("", <<"c", "c1", "1k", "n1", "n2">>),
     Line("", <<"l", "l1", "2", "n1">>),
     Line("", <<"op", "op1", "op27", "n1", "n2", "n3">>),
     Line("", <<"uinput", "n1", "2">>),
     Line("", <<"uinput", "np", "nm", "2">>),
     Line("", <<"vinput", "np", "nm", "2", "2">>),
     Line("", <<"vinput", "n1">>),
     Line("", <<"uoutput", "n2:db">>),
     Line("", <<"noise", "n2">>),
     Line("", <<"freq", "log", "2", "2", "2">>),
     Line("", <<"freq", "exp", "2", "2", "2">>),
     Line("", <<"freq", "lin", "2", "2">>),
     Line("", <<"rr", "r1", "2", "n1", "n2">>),
     Line("", <<"output", "n2">>)}

\* what the parser works on: the heaps, the components of its circuit and
\* the parser's own fields
ParserState ==
    [nodes |-> nodes, components |-> components, parsed |-> parsed,
     circuit |-> parser.circuit, output_nodes |-> parser.output_nodes,
     frequencies |-> parser.frequencies]

\* a step that returned, and one that raised, leaving the state st
Done(st) == [raised |-> "", state |-> st]
Failed(error, st) == [raised |-> error, state |-> st]

\* Node(name) on the heap of st: the key of the new object, and the state
NewKey(st) == Cardinality(DOMAIN st.nodes \ {0}) + 1
WithNode(st, name) == [st EXCEPT !.nodes = NewNodeIn(@, name)]

\* BaseParser._add_lcr on the options of an r, c or l line
add_lcr(st, cls, options) ==
    IF Len(options) # 4 THEN Failed("TypeError", st)
    ELSE LET node1 == NewKey(st)
             node2 == NewKey(st) + 1
             built == WithNode(WithNode(st, options[3]), options[4])
             value == ValueSetter(Text(options[2]))
         IN  IF value.raised # "" THEN Failed(value.raised, built)
             ELSE Done([built EXCEPT
                          !.nodes = PassiveInit(@, Len(st.components) + 1, node1, node2),
                          !.components = Append(@, [cls |-> cls,
                                                    nodes |-> <<node1, node2>>]),
                          !.parsed = @ \cup {node1, node2}])

\* BaseParser._add_opamp: OpAmp(name=, model=, node1=, node2=, node3=) hands
\* model on to Component.__init__, which takes no such argument
add_opamp(st, options) ==
    IF Len(options) # 5 THEN Failed("TypeError", st)
    ELSE Failed("TypeError",
                WithNode(WithNode(WithNode(st, options[3]), options[4]), options[5]))

\* InputParser._parse_component
parse_component(st, command, options) ==
    IF command = "r" THEN add_lcr(st, "Resistor", options)
    ELSE IF command = "c" THEN add_lcr(st, "Capacitor", options)
    ELSE IF command = "l" THEN add_lcr(st, "Inductor", options)
    ELSE IF command = "op" THEN add_opamp(st, options)
    ELSE Failed("ValueError", st)

\* float(token)
FloatOfToken(token) == float(Text(token))

\* InputParser._parse_input_nodes
parse_input_nodes(st, node_options) ==
    IF Len(node_options) < 1 THEN Failed("IndexError", st)
    ELSE LET first == [WithNode(st, node_options[1]) EXCEPT
                         !.circuit.input_node_p = NewKey(st)]
         IN  IF Len(node_options) > 3
             THEN LET second == [WithNode(first, node_options[2]) EXCEPT
                                   !.circuit.input_node_m = NewKey(first)]
                      ohms == FloatOfToken(node_options[3])
                  IN  IF ohms.raised # "" THEN Failed(ohms.raised, second)
                      ELSE Done([second EXCEPT
                                   !.circuit.input_impedance = ohms.value])
             ELSE IF Len(node_options) < 2 THEN Failed("IndexError", first)
             ELSE LET ohms == FloatOfToken(node_options[2])
                  IN  IF ohms.raised # "" THEN Failed(ohms.raised, first)
                      ELSE Done([first EXCEPT
                                   !.circuit.input_impedance = ohms.value])

\* token.split(":")[0]
BeforeColon(token) == IF token = "n2:db" THEN "n2" ELSE token

\* InputParser._parse_output_nodes(options[0])
parse_output_nodes(st, options) ==
    IF Len(options) < 1 THEN Failed("IndexError", st)
    ELSE Done([WithNode(st, BeforeColon(options[1])) EXCEPT
                 !.output_nodes = @ \cup {NewKey(st)}])

\* InputParser._parse_noise_node(options[0])
parse_noise_node(st, options) ==
    IF Len(options) < 1 THEN Failed("IndexError", st)
    ELSE Done([WithNode(st, BeforeColon(options[1])) EXCEPT
                 !.circuit.noise_node = NewKey(st)])

\* SIFormatter.parse and int, on the number tokens of the lines
ParseNumber(token) == IF token = "2" THEN Return(2) ELSE Raise("ValueError")

\* InputParser._parse_frequencies: the arguments of linspace or logspace
parse_frequencies(st, options) ==
    IF Len(options) # 4 THEN Failed("ValueError", st)
    ELSE LET start == ParseNumber(options[2])
             stop == ParseNumber(options[3])
             steps == ParseNumber(options[4])
         IN  IF start.raised # "" THEN Failed(start.raised, st)
             ELSE IF stop.raised # "" THEN Failed(stop.raised, st)
             ELSE IF steps.raised # "" THEN Failed(steps.raised, st)
             ELSE IF options[1] \in {"lin", "log"}
             THEN Done([st EXCEPT !.frequencies =
                          <<options[1], start.value, stop.value, steps.value + 1>>])
             ELSE Failed("ValueError", st)

\* InputParser._parse_directive
parse_directive(st, directive, options) ==
    IF directive \in DIRECTIVES.input_nodes THEN parse_input_nodes(st, options)
    ELSE IF directive \in DIRECTIVES.output_nodes THEN parse_output_nodes(st, options)
    ELSE IF directive \in DIRECTIVES.noise_node THEN parse_noise_node(st, options)
    ELSE IF directive \in DIRECTIVES.frequencies THEN parse_frequencies(st, options)
    ELSE Failed("ValueError", st)

\* InputParser._parse_tokens
parse_tokens(st, tokens) ==
    IF Len(tokens) < 1 THEN Done(st)
    ELSE IF tokens[1] \in COMPONENTS THEN parse_component(st, tokens[1], Tail(tokens))
    ELSE IF tokens[1] \in directives THEN parse_directive(st, tokens[1], Tail(tokens))
    ELSE Done(st)

\* the parser's fields after a step
ParserAfter(done) ==
    [circuit |-> done.state.circuit, output_nodes |-> done.state.output_nodes,
     frequencies |-> done.state.frequencies, lines |-> parser.lines + 1,
     raised |-> done.raised]

\* InputParser.parse_lines, one line of the file: a line that starts with
\* "#" is dropped, any other is tokenised and parsed; an exception ends the
\* parsing
ParseLine(line) ==
    /\ parser.raised = ""
    /\ parser.lines < MaxLines
    /\ LET done == IF StartsWithHash(line) THEN Done(ParserState)
                   ELSE parse_tokens(ParserState, line.tokens)
       IN  /\ nodes' = done.state.nodes
           /\ components' = done.state.components
           /\ parsed' = done.state.parsed
           /\ parser' = ParserAfter(done)
           /\ ret' = [kind |-> "parse_line", of |-> 0,
                      value |-> [line |-> line, raised |-> done.raised,
                                 before |-> ParserState]]

InitParser ==
    /\ instances = <<>>
    /\ nodes = <<>>
    /\ components = <<>>
    /\ parsed = {}
    /\ ret = NoCall
    /\ NoAnalysis
    /\ NoSolution
    /\ NoTools

NextParser ==
    /\ \E line \in Lines : ParseLine(line)
    /\ UNCHANGED instances
    /\ UNCHANGED <<noiseVars, solutionVars, registry, configs, init_calls, resistor_set>>

SpecParser == InitParser /\ [][NextParser]_vars

----------------------------------------------------------------------------
(* Claims about the equations and the ground singleton *)

Count(seq, x) == Cardinality({i \in DOMAIN seq : seq[i] = x})

Indicator(cond) == IF cond THEN 1 ELSE 0

\* str.lower() on the names in use
lower(name) == IF name \in {"gnd", "GND", "Gnd"} THEN "gnd" ELSE name

\* C1: the equation of a passive component holds exactly one impedance
\* coefficient on the component itself, a voltage coefficient -1 on node1
\* iff node1 is not ground, a voltage coefficient +1 on node2 iff node2 is
\* not ground, and nothing else.
PassiveEquationContract ==
    ret.kind = "passive" =>
        LET c == ret.of
            node1 == components[c].nodes[1]
            node2 == components[c].nodes[2]
            gnd == instances["Gnd"]
            cs == ret.value
        IN  /\ Count(cs, ImpedanceCoefficient(c, "impedance")) = 1
            /\ Count(cs, VoltageCoefficient(node1, "-1")) = Indicator(node1 # gnd)
            /\ Count(cs, VoltageCoefficient(node2, "1")) = Indicator(node2 # gnd)
            /\ Len(cs) = 1 + Indicator(node1 # gnd) + Indicator(node2 # gnd)

\* C1 witness: the equation of a passive component with node1 on ground and
\* node2 not on ground has been computed.
PassiveEquationWitness ==
    /\ ret.kind = "passive"
    /\ components[ret.of].nodes[1] = instances["Gnd"]
    /\ components[ret.of].nodes[2] # instances["Gnd"]

\* C2: the equation of an op-amp holds the inverse-gain coefficient on node3
\* whenever node3 is not ground, -1 on node1 and +1 on node2 when these are
\* not ground, and no coefficient on the op-amp's own branch current.
OpAmpEquationOutputCoefficient ==
    ret.kind = "opamp" =>
        LET c == ret.of
            node1 == components[c].nodes[1]
            node2 == components[c].nodes[2]
            node3 == components[c].nodes[3]
            gnd == instances["Gnd"]
            cs == ret.value
        IN  /\ node3 # gnd => Count(cs, VoltageCoefficient(node3, "inverse_gain")) = 1
            /\ node1 # gnd => Count(cs, VoltageCoefficient(node1, "-1")) = 1
            /\ node2 # gnd => Count(cs, VoltageCoefficient(node2, "1")) = 1
            /\ \A i \in DOMAIN cs : cs[i].coefficient_type = TYPE_VOLTAGE

\* C3: no voltage coefficient of a component equation refers to the ground
\* node.
NoGroundCoefficient ==
    ret.kind \in {"passive", "opamp"} =>
        \A i \in DOMAIN ret.value :
            ret.value[i].coefficient_type = TYPE_VOLTAGE
                => ret.value[i].node # instances["Gnd"]

\* The side of component c that node n is on
IsSourceSide(c, n) ==
    \/ IsPassive(c) /\ components[c].nodes[2] = n
    \/ IsOpAmp(c) /\ components[c].nodes[3] = n

IsSinkSide(c, n) == IsPassive(c) /\ components[c].nodes[1] = n

\* C4: the equation of a node holds exactly one current coefficient +1 for
\* each component whose source side is the node (a passive's node2, an
\* op-amp's node3), exactly one current coefficient -1 for each component
\* whose sink side is the node (a passive's node1), and nothing else; so an
\* op-amp adds nothing at its input nodes.
NodeEquationContract ==
    ret.kind = "node" =>
        LET n == ret.of
            cs == ret.value
            sourced == {c \in DOMAIN components : IsSourceSide(c, n)}
            sunk == {c \in DOMAIN components : IsSinkSide(c, n)}
        IN  /\ \A c \in DOMAIN components :
                   /\ Count(cs, CurrentCoefficient(c, "1")) = Indicator(c \in sourced)
                   /\ Count(cs, CurrentCoefficient(c, "-1")) = Indicator(c \in sunk)
            /\ Len(cs) = Cardinality(sourced) + Cardinality(sunk)

\* C4 witness: the equation of a node that is the sink side of a passive
\* component has been computed.
NodeEquationWitness ==
    /\ ret.kind = "node"
    /\ \E c \in DOMAIN components : IsSinkSide(c, ret.of)
    /\ ret.value # <<>>

\* C5: every node the LISO parser builds for a name that reads "gnd" in any
\* letter case is the Gnd singleton.
ParsedGroundIsSingleton ==
    GndExists =>
        \A n \in parsed : lower(nodes[n].name) = "gnd" => n = instances["Gnd"]

\* C6: the state of the ground singleton (name, sources, sinks) stays what
\* it was right after its construction.
GndReadOnly ==
    GndExists => nodes[instances["Gnd"]] = Node("Gnd")

\* C7: at every frequency the matrix of the noise analysis is the transpose
\* of the matrix of the signal analysis, and the right-hand-side index is
\* the matrix index of the noise sink: its place in insertion order for a
\* component, n_components plus its place among the non-ground nodes for a
\* node.
NoiseMatrixIsTranspose ==
    /\ ret.kind = "circuit_matrix" =>
           /\ DOMAIN ret.value = 0..(dim_size - 1)
           /\ \A i, j \in 0..(dim_size - 1) :
                  ret.value[i][j] = SignalCircuitMatrix(ret.of)[j][i]
    /\ ret.kind = "right_hand_side_index" =>
           /\ \A c \in DOMAIN components :
                  ret.of = ComponentRef(c) => ret.value = Return(c - 1)
           /\ \A k \in DOMAIN non_gnd_nodes :
                  ret.of = NodeRef(non_gnd_nodes[k])
                      => ret.value = Return(n_components + k - 1)

\* C7 witness: the noise matrix of a circuit whose signal matrix is not
\* symmetric has been computed.
NoiseMatrixWitness ==
    /\ ret.kind = "circuit_matrix"
    /\ \E i, j \in 0..(dim_size - 1) :
           SignalCircuitMatrix(ret.of)[i][j] # SignalCircuitMatrix(ret.of)[j][i]

\* the matrix index of the element of the i-th noise source: the place of
\* its component in insertion order, or n_components plus the place of its
\* node among the non-ground nodes
SourceIndex(i) ==
    IF noise_sources[i].TYPE = "component"
    THEN noise_sources[i].element - 1
    ELSE n_components - 1
             + CHOOSE k \in DOMAIN non_gnd_nodes :
                   non_gnd_nodes[k] = noise_sources[i].element

UnknownSources ==
    {i \in DOMAIN noise_sources : noise_sources[i].TYPE \notin {"component", "node"}}

ZeroSources ==
    {i \in DOMAIN noise_sources :
        \A f \in Frequencies : noise_sources[i].density[f] = 0}

\* C8: when _build_solution returns, the solution holds, for each noise
\* source s in order, one NoiseDensity with source s, the noise sink as
\* sink, the frequencies as x and y(f) = |M[i_s, f]| * N_s(f), where i_s is
\* the matrix index of the source's component or node; with a source of
\* another kind the call raises ValueError.
BuildSolutionContract ==
    /\ build_result = "returned" =>
           /\ Len(solution) = Len(noise_sources)
           /\ \A i \in DOMAIN noise_sources :
                  /\ solution[i].source = i
                  /\ solution[i].sink = noise_sink
                  /\ solution[i].series.x = frequencies
                  /\ DOMAIN solution[i].series.y = Frequencies
                  /\ \A f \in Frequencies :
                         solution[i].series.y[f] =
                             Abs(noise_matrix[SourceIndex(i)][f])
                                 * noise_sources[i].density[f]
    /\ build_result # "pending" =>
           (build_result = "ValueError" <=> UnknownSources # {})

\* C8 witness: _build_solution has returned for a component source and a
\* node source, one of them with a negative response and a density above 0.
BuildSolutionWitness ==
    /\ build_result = "returned"
    /\ \E i, j \in DOMAIN noise_sources :
           /\ noise_sources[i].TYPE = "component"
           /\ noise_sources[j].TYPE = "node"
           /\ \E f \in Frequencies :
                  /\ noise_matrix[SourceIndex(i)][f] < 0
                  /\ noise_sources[i].density[f] > 0

\* C9: when _build_solution returns, the solution holds no NoiseDensity for
\* a source whose spectral density is zero at every frequency, and that
\* source is reported in exactly one log record.
ZeroSourcesOmitted ==
    build_result = "returned" =>
        \A i \in ZeroSources :
            /\ \A k \in DOMAIN solution : solution[k].source # i
            /\ Cardinality({r \in DOMAIN log :
                              \E e \in DOMAIN log[r].sources : log[r].sources[e] = i}) = 1

\* C10: when add_noise returns, every source whose spectrum row is non-zero
\* at some frequency has a NoiseSpectrum with that row in the solution, and
\* a source whose row is zero at every frequency has none from this call.
AddNoiseSkipsOnlyZeroRows ==
    (add_call.method = "add_noise" /\ add_call.raised = "") =>
        \A k \in DOMAIN add_call.spectra :
            LET row == add_call.spectra[k]
                function == NoiseSpectrum(elements[k], add_call.sink,
                                          Series(frequencies, row))
            IN  (\E f \in Frequencies : row[f] # 0)
                    <=> (\E i \in DOMAIN functions : functions[i] = function)

----------------------------------------------------------------------------
(* Claims about calculate *)

\* y is `before` divided by m: y * m = before, or inf / nan for m = 0
Referred(y, before, m) ==
    IF m = 0 THEN y.den = 0 /\ y.num = Sign(before.num)
    ELSE y.den > 0 /\ y.num * before.den * m = before.num * y.den

\* the functions fs are the functions `before`, each divided once by m
ReferredFunctions(fs, before, m) ==
    /\ Len(fs) = Len(before)
    /\ \A i \in DOMAIN before :
           /\ fs[i].source = before[i].source
           /\ fs[i].sink = before[i].sink
           /\ fs[i].series.x = before[i].series.x
           /\ \A f \in Frequencies :
                  Referred(fs[i].series.y[f], before[i].series.y[f], m[f])

\* the response from the input to the sink: from the node "in" (node2 of
\* the input component) for a voltage input, from the input component for
\* a current input
InputToSink ==
    IF call.input_type = "voltage"
    THEN analysis.projection[NodeRef(1)]
    ELSE analysis.projection[ComponentRef(n_components + 1)]

\* C11: when calculate returns with input_refer=True, every noise
\* contribution and every aggregated sum of the solution is what
\* _build_solution and the aggregation left, divided exactly once, pointwise,
\* by the magnitude of the response from the input to the sink (from the
\* input component's node2 for a voltage input, from the input component
\* for a current input); where that magnitude is 1 at every frequency the
\* spectra are those of input_refer=False, which are left undivided.
InputReferContract ==
    (call.pc = "done" /\ call.result.raised = "") =>
        IF call.input_refer
        THEN /\ ReferredFunctions(solution, call.built.noise, InputToSink)
             /\ ReferredFunctions(analysis.noise_sums, call.built.noise_sums,
                                  InputToSink)
             /\ (\A f \in Frequencies : InputToSink[f] = 1) =>
                    \A i \in DOMAIN solution : \A f \in Frequencies :
                        solution[i].series.y[f] = call.built.noise[i].series.y[f]
        ELSE /\ solution = call.built.noise
             /\ analysis.noise_sums = call.built.noise_sums

\* C11 witness: calculate has returned with input_refer=True for a voltage
\* input whose response differs from that of the input component, with a
\* non-zero contribution halved at some frequency, and with a sum.
InputReferWitness ==
    /\ call.pc = "done"
    /\ call.result.raised = ""
    /\ call.input_refer
    /\ call.input_type = "voltage"
    /\ analysis.projection[NodeRef(1)] # analysis.projection[ComponentRef(n_components + 1)]
    /\ analysis.noise_sums # <<>>
    /\ \E i \in DOMAIN solution : \E f \in Frequencies :
           /\ InputToSink[f] = 2
           /\ call.built.noise[i].series.y[f].num > 0
           /\ solution[i].series.y[f].num * 2 = call.built.noise[i].series.y[f].num
           /\ solution[i].series.y[f].den = call.built.noise[i].series.y[f].den

\* C12: the right hand side index of a call is the component matrix index
\* when the sink is a component of the circuit and the node matrix index
\* when it is one of its nodes; for any other sink the call ends at once by
\* raising ValueError with the sink in its message, and returns no solution.
SinkIndexContract ==
    (call.pc # "idle" /\ call.result.raised # "NotConfigured") =>
        LET sink == call.sink
        IN  IF sink[1] = "Component" /\ sink[2] \in 1..n_components
            THEN call.rhs = Return(sink[2] - 1)
            ELSE IF sink[1] = "Node"
                    /\ \E k \in DOMAIN non_gnd_nodes : non_gnd_nodes[k] = sink[2]
            THEN \E k \in DOMAIN non_gnd_nodes :
                     /\ non_gnd_nodes[k] = sink[2]
                     /\ call.rhs = Return(n_components + k - 1)
            ELSE /\ call.pc = "done"
                 /\ call.result.raised = "ValueError"
                 /\ call.result.message[2] = sink

\* C12 witness: calculate has raised for a sink that is not in the circuit,
\* on an instance that a cancelled call had left configured.
SinkIndexWitness ==
    /\ call.pc = "done"
    /\ call.n = 2
    /\ call.sink = ComponentRef(n_components + 2)
    /\ call.result.raised = "ValueError"

\* C13: a call without an impedance hands 50 to the calculation and logs
\* one warning; a call with an impedance, 0 included, hands on that
\* impedance and logs no warning.
DefaultImpedanceContract ==
    LET warnings == {r \in DOMAIN log : log[r].level = "warning"}
    IN  /\ call.n = 1 /\ call.pc # "idle" =>
               Cardinality(warnings) = Indicator(~call.impedance.given)
        /\ call.pc \in {"sweep", "built"} =>
               analysis.impedance =
                   IF call.impedance.given THEN call.impedance
                   ELSE [given |-> TRUE, value |-> 50]
        /\ call.pc # "idle" => (call.warned <=> ~call.impedance.given)

\* C13 witness: the sweep runs with impedance 0 as given by the caller.
DefaultImpedanceWitness ==
    /\ call.pc = "sweep"
    /\ call.impedance = [given |-> TRUE, value |-> 0]
    /\ analysis.impedance.value = 0
    /\ log = <<>>

\* C14: a call of add_noise with a matrix of the solution's shape returns
\* normally also when it brings a function the solution already holds: the
\* duplicate is dropped and each function is held once.
DuplicateFunctionDropped ==
    (add_call.method = "add_noise"
        /\ Shape(add_call.spectra) = <<dim_size, n_frequencies>>) =>
            /\ add_call.raised = ""
            /\ \A i, j \in DOMAIN functions : functions[i] = functions[j] => i = j

\* the functions fs2 after a step hold the functions fs before it, in
\* place and as they were
Extends(fs2, fs) ==
    /\ Len(fs2) >= Len(fs)
    /\ \A i \in DOMAIN fs : fs2[i] = fs[i]

\* C15: every step of calculate only adds functions to the solution: a
\* noise contribution or sum that the solution holds keeps its place and
\* its values, also in a call with input_refer=True, and after calculate
\* has returned the solution does not change.
SolutionAppendOnly ==
    [][/\ Extends(solution', solution)
       /\ Extends(analysis'.noise_sums, analysis.noise_sums)]_vars

Max(a, b) == IF a > b THEN a ELSE b

\* a cancel raised with a frequency boundary still ahead
CancelObserved ==
    /\ call.cancel
    /\ Max(call.cancel_at, 1) < NFreq

\* C16: after a cancel that is raised with a frequency boundary still
\* ahead, no frequency point beyond that boundary is solved, the sweep does
\* not reach its end, and the call ends by raising Cancelled with the
\* solution discarded, the instance configured and the circuit as it was.
CancelContract ==
    CancelObserved =>
        /\ call.swept <= Max(call.cancel_at, 1)
        /\ call.pc \in {"sweep", "done"}
        /\ call.pc = "done" =>
               /\ call.result.raised = "Cancelled"
               /\ solution = <<>>
               /\ analysis.noise_sums = <<>>
               /\ analysis.state = "configured"
               /\ nodes = Divider.nodes
               /\ components = Divider.components

\* C16 witness: a cancel raised after the first frequency point has ended
\* the call.
CancelWitness ==
    /\ call.pc = "done"
    /\ call.cancel
    /\ call.cancel_at = 1
    /\ call.swept = 1
    /\ call.result.raised = "Cancelled"

\* C17: the state of an analysis instance only changes from configured to
\* running and from running to completed, or from running back to
\* configured when a cancel ends the call and the solution is discarded; a
\* completed instance stays completed in every further call.
StateOneWay ==
    [][\/ analysis'.state = analysis.state
       \/ analysis.state = "configured" /\ analysis'.state = "running"
       \/ analysis.state = "running" /\ analysis'.state = "completed"
       \/ /\ analysis.state = "running" /\ analysis'.state = "configured"
          /\ call.cancel
          /\ call'.result.raised = "Cancelled"
          /\ solution' = <<>>]_vars

\* C17 witness: a further calculate call on a completed instance has ended
\* and the instance is still completed.
StateOneWayWitness ==
    /\ call.n = 2
    /\ call.pc = "done"
    /\ call.result.raised = "NotConfigured"
    /\ analysis.state = "completed"

----------------------------------------------------------------------------
(* Claims about add_tfs and the component values *)

\* the transfer functions add_tfs is to append for the matrix of the last
\* call: one per non-ground node, in the circuit's node order, from the
\* input node to that node, with the matrix row after the component rows
ExpectedTfs ==
    [k \in 1..Len(non_gnd_nodes) |->
        [class |-> "TransferFunction", source |-> NodeRef(1),
         sink |-> NodeRef(non_gnd_nodes[k]),
         series |-> [x |-> frequencies, y |-> add_call.spectra[n_components + k]]]]

NonPositive ==
    {c \in DOMAIN components :
        /\ components[c].cls \in {"Resistor", "Capacitor", "Inductor"}
        /\ components[c].value.kind = "number"
        /\ components[c].value.n <= 0}

\* C19: a resistor, capacitor or inductor whose value is not above zero is
\* refused when it is built or its value is set, or at the latest when it
\* is first used: its equation and its impedance are not to be had without
\* an error.
NonPositiveValueRejected ==
    \A c \in NonPositive :
        (ret.kind \in {"passive", "impedance"} /\ ret.of = c) =>
            (ret.kind = "impedance" /\ ret.value.raised # "")

\* C20: noise_voltage of a ResistorCollection returns the Johnson noise of
\* the collection's equivalent resistance (the sum of the resistances in
\* series, the reciprocal of the sum of their reciprocals in parallel), and
\* never the object NotImplemented.
CollectionNoiseIsJohnson ==
    (ret.kind = "noise_voltage" /\ components[ret.of].cls = "ResistorCollection") =>
        /\ ret.value.raised = "" => ret.value.value.kind # "NotImplemented"
        /\ ResistorCollectionValue(ret.of).raised = "" =>
               ret.value = Return(Johnson(ResistorCollectionValue(ret.of).value))

----------------------------------------------------------------------------
(* Claims about the op-amp gain and the solution's filters *)

\* C21: for an op-amp with the default parameters (A0 and GBW infinite, no
\* delay, no extra zeros or poles) gain(f) is infinite and inverse_gain(f)
\* is 0 at every positive frequency f, and neither is NaN.
IdealGainInfinite ==
    (ret.kind \in {"gain", "inverse_gain"} /\ components[ret.of].params = IdealOpAmp) =>
        /\ ~IsComplexNaN(ret.value)
        /\ ret.kind = "gain" => IsComplexInf(ret.value)
        /\ ret.kind = "inverse_gain" => ret.value = FromReal(Fraction(0))

\* the positions of the functions of one class in fs whose source is in
\* sources when sources is not empty and whose sink is in sinks when sinks
\* is not empty
Kept(fs, class, sources, sinks) ==
    {i \in DOMAIN fs :
        /\ fs[i].class = class
        /\ sources # <<>> => \E k \in DOMAIN sources : sources[k] = fs[i].source
        /\ sinks # <<>> => \E k \in DOMAIN sinks : sinks[k] = fs[i].sink}

\* the k-th smallest member of a set of positions
Nth(positions, k) ==
    CHOOSE i \in positions : Cardinality({j \in positions : j < i}) = k - 1

FilterClass == [transfer_functions |-> "TransferFunction",
                noise_functions |-> "NoiseSpectrum"]

\* C22: transfer_functions(sources, sinks) and noise_functions(sources,
\* sinks) return exactly the stored functions of their kind whose source is
\* in sources (when sources is not empty) and whose sink is in sinks (when
\* sinks is not empty), in the order in which they were added, and leave
\* the solution as it was.
FilterContract ==
    ret.kind \in {"transfer_functions", "noise_functions"} =>
        LET kept == Kept(ret.value.before, FilterClass[ret.kind],
                         ret.value.sources, ret.value.sinks)
        IN  /\ Len(ret.value.result) = Cardinality(kept)
            /\ \A k \in 1..Cardinality(kept) :
                   ret.value.result[k] = ret.value.before[Nth(kept, k)]
            /\ functions = ret.value.before

\* C22 witness: a filter with sources and sinks both given has returned
\* some, but not all, of the stored functions of its kind, from a solution
\* that holds functions of both kinds.
FilterWitness ==
    /\ ret.kind = "noise_functions"
    /\ ret.value.sources # <<>>
    /\ ret.value.sinks # <<>>
    /\ Len(ret.value.result) >= 1
    /\ Len(ret.value.result) < Cardinality(Kept(functions, "NoiseSpectrum", <<>>, <<>>))
    /\ Kept(functions, "TransferFunction", <<>>, <<>>) # {}

\* C30: add_tfs and add_noise are all-or-nothing: when a call raises
\* ValueError the function list is exactly what it was before the call;
\* and the list never holds two equal functions.
AddAllOrNothing ==
    /\ (add_call.method \in {"add_tfs", "add_noise"} /\ add_call.raised = "ValueError")
           => functions = add_call.before
    /\ \A i, j \in DOMAIN functions : functions[i] = functions[j] => i = j

----------------------------------------------------------------------------
(* Claims about the configuration singletons *)

\* the add_data calls on the library before call i that were for the same
\* name as call i, letter case apart
EarlierAdds(adds, i) ==
    {j \in 1..(i - 1) : upper(adds[j].name) = upper(adds[i].name)}

\* C23: the names of the op-amp library are case-insensitive and unique:
\* each upper-cased name maps to the data of the first add_data call for
\* it, which succeeded; add_data for a name that is present in any letter
\* case, aliases included, raises ValueError and changes nothing;
\* get_data(n) returns that data for every casing of n and raises
\* ValueError exactly when has_data(n) is false.
LibraryNamesContract ==
    HasLibrary =>
        LET adds == Library.adds
            data == Library.data
        IN  /\ DOMAIN data = {upper(adds[i].name) : i \in DOMAIN adds}
            /\ \A i \in DOMAIN adds :
                   IF EarlierAdds(adds, i) = {}
                   THEN adds[i].raised = "" /\ data[upper(adds[i].name)] = adds[i].data
                   ELSE adds[i].raised = "ValueError"
            /\ (ret.kind = "add_data" /\ ret.value.result.raised # "")
                   => data = ret.value.before
            /\ ret.kind = "get_data" =>
                   /\ ret.value.result.raised \in {"", "ValueError"}
                   /\ ret.value.result.raised = "ValueError"
                          <=> ~has_data(Library, ret.value.name)
                   /\ ret.value.result.raised = "" =>
                          /\ upper(ret.value.name) \in DOMAIN data
                          /\ ret.value.result.value = data[upper(ret.value.name)]
            /\ ret.kind = "has_data" =>
                   (ret.value.result.value <=> upper(ret.value.name) \in DOMAIN data)

\* C23 witness: a library populated from a file with an alias has refused
\* an add_data call for that alias written in another letter case, and
\* still holds the first data under the upper-cased name.
LibraryNamesWitness ==
    /\ HasLibrary
    /\ ret.kind = "add_data"
    /\ ret.value.result.raised = "ValueError"
    /\ ret.value.name = "op27"
    /\ Len(Library.adds) = 3
    /\ Library.adds[2].name = "Op27"
    /\ Library.data["OP27"] = "data 2"
    /\ Library.adds[3].data = "data 1"

\* the objects of a configuration class whose constructor has returned
InstancesOf(cls) == {i \in DOMAIN configs : configs[i].cls = cls}

\* every class that has been constructed has one object, the registered
\* one, and the last construction that returned has returned it
OneInstance ==
    /\ \A cls \in ConfigClasses :
           IF cls \in DOMAIN registry
           THEN InstancesOf(cls) = {registry[cls]}
           ELSE InstancesOf(cls) = {}
    /\ (ret.kind = "config" /\ ret.value.result.raised = "")
           => ret.value.result.value = registry[ret.value.cls]

\* C24 as stated: every construction of a configuration class returns the
\* same instance, the two classes have distinct instances, and the
\* constructor body runs exactly once per class however often the class
\* is called.
SingletonInitOnce ==
    /\ OneInstance
    /\ \A cls \in ConfigClasses : init_calls[cls] <= 1
    /\ ret.kind = "config" => init_calls[ret.value.cls] = 1

\* C24 amended: every construction that returns, returns the one
\* registered instance of its class, and the two classes have distinct
\* instances; once a construction of a class has returned, its instance is
\* never replaced and the constructor body is never entered again, whatever
\* the later calls pass.  A construction that raises registers nothing,
\* and the next call enters the constructor body again.
SingletonContract ==
    [][/\ OneInstance'
       /\ \A cls \in ConfigClasses :
              IF cls \in DOMAIN registry
              THEN /\ cls \in DOMAIN registry'
                   /\ registry'[cls] = registry[cls]
                   /\ init_calls'[cls] = init_calls[cls]
              ELSE (ret'.kind = "config" /\ ret'.value.cls = cls)
                       => /\ init_calls'[cls] = init_calls[cls] + 1
                          /\ ret'.value.result.raised = "" <=> cls \in DOMAIN registry'
      ]_vars

\* C24 witness: both classes have been constructed, the last call was a
\* construction that returned the registered library without running the
\* constructor body, and that body had been entered twice because its
\* first run raised.
SingletonWitness ==
    /\ DOMAIN registry = ConfigClasses
    /\ registry["ZeroConfig"] # registry["OpAmpLibrary"]
    /\ ret.kind = "config"
    /\ ret.value.cls = "OpAmpLibrary"
    /\ ~ret.value.ran_init
    /\ ret.value.result = Return(registry["OpAmpLibrary"])
    /\ init_calls["OpAmpLibrary"] = 2

----------------------------------------------------------------------------
(* Claims about the resistor Set and the regulator *)

\* the base resistors a Set is to yield: for every exponent from min_exp to
\* max_exp, and within it for every base number of the series, a Resistor
\* of base x 10^exp with the set's tolerance and no nodes
ExpectedBaseResistors(set) ==
    LET bases == base_numbers(set).value
        n == Len(bases)
    IN  [k \in 1..((set.max_exp - set.min_exp + 1) * n) |->
            [cls |-> "Resistor",
             value |-> Lowest([num |-> bases[((k - 1) % n) + 1]
                                          * Pow10(set.min_exp + ((k - 1) \div n)),
                               den |-> 10]),
             tolerance |-> set.tolerance,
             nodes |-> <<None, None>>]]

\* the number of multisets of size k from n values
RECURSIVE Multisets(_, _)
Multisets(n, k) ==
    IF k = 0 THEN 1 ELSE IF n = 0 THEN 0 ELSE Multisets(n - 1, k) + Multisets(n, k - 1)

\* the number of multisets of sizes min..max from n values
RECURSIVE MultisetsOfSizes(_, _, _)
MultisetsOfSizes(n, min, max) ==
    IF min > max THEN 0 ELSE Multisets(n, min) + MultisetsOfSizes(n, min + 1, max)

\* the number of items combinations() is to yield
ExpectedCombinations(set) ==
    LET n == Len(ExpectedBaseResistors(set))
    IN  (IF set.min_series < 2 \/ set.min_parallel < 2 THEN n ELSE 0)
            + (IF set.max_series >= 2
               THEN MultisetsOfSizes(n, set.min_series, set.max_series) ELSE 0)
            + (IF set.max_parallel >= 2
               THEN MultisetsOfSizes(n, set.min_parallel, set.max_parallel) ELSE 0)

\* a Set whose series is known and whose ranges are not empty
WellFormed(set) ==
    /\ base_numbers(set).raised = ""
    /\ set.min_exp <= set.max_exp
    /\ set.min_series <= set.max_series
    /\ set.min_parallel <= set.max_parallel

\* C25: n_combinations() equals the number of items combinations()
\* yields, which is the base resistors once when min_series < 2 or
\* min_parallel < 2, plus the multisets of sizes min_series..max_series
\* and of sizes min_parallel..max_parallel; and n_combinations() raises
\* whenever combinations() raises.
CombinationsCounted ==
    ret.kind = "combinations" =>
        /\ ret.value.combinations.raised # "" => ret.value.n_combinations.raised # ""
        /\ WellFormed(resistor_set) =>
               /\ ret.value.combinations.raised = ""
               /\ ret.value.n_combinations =
                      Return(Len(ret.value.combinations.items))
               /\ Len(ret.value.combinations.items) = ExpectedCombinations(resistor_set)

\* C26: with min_exp <= max_exp, _base_resistors yields exactly one
\* Resistor of base x 10^exp, with the set's tolerance and no nodes, for
\* every exponent in [min_exp, max_exp] and every base number of the
\* series, in exponent-major order; with min_exp > max_exp it raises
\* ValueError.
BaseResistorsYielded ==
    (ret.kind = "base_resistors" /\ base_numbers(resistor_set).raised = "") =>
        IF resistor_set.min_exp > resistor_set.max_exp
        THEN ret.value.raised = "ValueError"
        ELSE ret.value = Yielded(ExpectedBaseResistors(resistor_set), "")

\* the pairs of two different positions of the combinations
PositionPairs(combs) ==
    {<<i, j>> \in (1..Len(combs)) \X (1..Len(combs)) : i # j}

\* the distance of a pair's regulated voltage from the target
Distance(combs, pair, voltage) ==
    AbsDifference(Lowest([num |-> 5 * (combs[pair[1]] + combs[pair[2]]),
                          den |-> 4 * combs[pair[1]]]), voltage)

\* C27: resistors_for_voltage(voltage, set, n) returns at most n tuples
\* (v, r1, r2), each from its own ordered pair of two different positions
\* of set.combinations(), with v = 1.25 x (1 + r2 / r1), sorted by
\* ascending |v - voltage|; no pair left out is strictly closer to the
\* target than a returned one, and no pair is pulled from the
\* enumeration more than once.
ClosestVoltages ==
    (ret.kind = "resistors_for_voltage" /\ ret.value.raised = "") =>
        LET made == ret.value
            result == made.result
            pairs == PositionPairs(made.combinations)
            returned == {<<result[k][2], result[k][3]>> : k \in 1..Len(result)}
        IN  /\ Len(result) = Min(made.n_values, Cardinality(pairs))
            /\ returned \subseteq pairs
            /\ Cardinality(returned) = Len(result)
            /\ \A k \in 1..Len(result) :
                   LET r1 == made.combinations[result[k][2]]
                       r2 == made.combinations[result[k][3]]
                   IN  /\ result[k][1].num * 4 * r1 = 5 * (r1 + r2) * result[k][1].den
                       /\ result[k][1].den > 0
            /\ \A k \in 1..(Len(result) - 1) :
                   ~ FractionLess(AbsDifference(result[k + 1][1], made.voltage),
                                  AbsDifference(result[k][1], made.voltage))
            /\ \A left \in pairs \ returned : \A k \in 1..Len(result) :
                   ~ FractionLess(Distance(made.combinations, left, made.voltage),
                                  AbsDifference(result[k][1], made.voltage))
            /\ made.pulled <= Cardinality(pairs)

\* a call that had to leave pairs out, among them one as close as a
\* returned one, and returned more than one tuple
ClosestVoltagesWitness ==
    /\ ret.kind = "resistors_for_voltage"
    /\ ret.value.raised = ""
    /\ Len(ret.value.result) = 2
    /\ Len(ret.value.combinations) = 3
    /\ FractionLess(AbsDifference(ret.value.result[1][1], ret.value.voltage),
                    AbsDifference(ret.value.result[2][1], ret.value.voltage))
    /\ ret.value.result[1][2] > ret.value.result[1][3]

----------------------------------------------------------------------------
(* Claims about the LISO input parser *)

\* the line just parsed was an input directive with n options
InputDirectiveOf(n) ==
    /\ ret.kind = "parse_line"
    /\ ~ StartsWithHash(ret.value.line)
    /\ Len(ret.value.line.tokens) = n + 1
    /\ ret.value.line.tokens[1] \in DIRECTIVES.input_nodes

\* C28: an input directive with three options - positive node, negative
\* node, impedance - sets input_node_p, input_node_m and input_impedance
\* from them; with two options - node, impedance - it sets input_node_p and
\* input_impedance and leaves input_node_m untouched.
InputDirectiveContract ==
    LET tokens == ret.value.line.tokens
        circuit == parser.circuit
    IN  /\ InputDirectiveOf(3) =>
               /\ ret.value.raised = ""
               /\ circuit.input_node_p \in DOMAIN nodes
               /\ nodes[circuit.input_node_p].name = tokens[2]
               /\ circuit.input_node_m \in DOMAIN nodes
               /\ nodes[circuit.input_node_m].name = tokens[3]
               /\ circuit.input_impedance = FloatOfToken(tokens[4]).value
        /\ InputDirectiveOf(2) =>
               /\ ret.value.raised = ""
               /\ circuit.input_node_p \in DOMAIN nodes
               /\ nodes[circuit.input_node_p].name = tokens[2]
               /\ circuit.input_impedance = FloatOfToken(tokens[3]).value
               /\ circuit.input_node_m = ret.value.before.circuit.input_node_m

\* the first token of the line just parsed is no component and no directive
UnknownCommand ==
    /\ ret.kind = "parse_line"
    /\ ~ StartsWithHash(ret.value.line)
    /\ ret.value.line.tokens # <<>>
    /\ ret.value.line.lead = ""
    /\ ret.value.line.tokens[1] \notin COMPONENTS \cup directives

\* C29: a non-empty, non-comment line whose first token is neither a
\* known component nor a known directive raises ValueError, and the circuit
\* is unchanged by that line.
UnknownCommandRaises ==
    UnknownCommand =>
        /\ ret.value.raised = "ValueError"
        /\ ParserState = ret.value.before

====
